---- MODULE Spec2Model ----
(***************************************************************************)
(* Model of the RUES + Odoo enrichment webhook (rues_scraper.py,           *)
(* odoo_rpc.py).                                                           *)
(*                                                                         *)
(* Python values are tagged records: None, bool, int, str (a sequence of   *)
(* one-character strings), dict (a sequence of <<key, value>> pairs in     *)
(* insertion order) and list.  The two endpoints are modelled as one       *)
(* request that advances from external call to external call; what each    *)
(* external call answers is chosen by the environment.                     *)
(***************************************************************************)
EXTENDS Integers, Sequences, FiniteSets, TLC

VARIABLES
    endpoint,            \* "webhook" | "webhook_odoo"
    payload,             \* the request body: [nit, vat, id]
    pc,                  \* position of the handler
    nit_digits,          \* local of the handler
    current,             \* local: what read_fields gave (webhook_odoo)
    row,                 \* local: the index row, or None
    id_rm,               \* local: composite record id, or None
    tpl,                 \* fetch_rues_detalle_api: index of the next template
    detalle,             \* local: the detail document (a dict)
    razon_social,        \* the five output fields
    sigla,
    fecha_matricula,
    ciiu,
    representante_legal,
    html,                \* local: html_by_id / html_parsed, a dict; NotFetched before
    search_title,        \* fetch_detail_from_html: razon_social read off the search page
    vals,                \* webhook_odoo: fields to write, in order
    writes,              \* webhook_odoo: odoo_result["writes"]
    partner,             \* the CRM record: [name, x_sigla]
    calls,               \* the external calls issued so far, in order
    response,            \* the HTTP response, or NoResponse
    fn_in,               \* pure-function harness: the argument
    fn_out,              \* pure-function harness: the successive results
    reqs,                \* concurrent requests to /webhook/odoo: the locals of each
    wlog                 \* the writes the CRM applied to the record, in order

vars == <<endpoint, payload, pc, nit_digits, current, row, id_rm, tpl, detalle,
          razon_social, sigla, fecha_matricula, ciiu, representante_legal, html,
          search_title, vals, writes, partner, calls, response, fn_in, fn_out,
          reqs, wlog>>

(***************************************************************************)
(* Bounds of the model.                                                    *)
(***************************************************************************)
MaxNitLen == 10
MaxRows == 3
MaxPersons == 3
MaxKeys == 3

(***************************************************************************)
(* Python values.                                                          *)
(***************************************************************************)
None == [t |-> "NoneType"]
PyBool(b) == [t |-> "bool", b |-> b]
PyInt(n) == [t |-> "int", n |-> n]
Str(s) == [t |-> "str", s |-> s]
Dict(kv) == [t |-> "dict", items |-> kv]
List(xs) == [t |-> "list", items |-> xs]

IsStr(v) == v.t = "str"
IsDict(v) == v.t = "dict"
IsList(v) == v.t = "list"

\* bool(v): Python truthiness.
Truthy(v) ==
    CASE v.t = "NoneType" -> FALSE
      [] v.t = "bool" -> v.b
      [] v.t = "int" -> v.n # 0
      [] v.t = "str" -> v.s # <<>>
      [] v.t = "dict" -> v.items # <<>>
      [] v.t = "list" -> v.items # <<>>

\* `a or b`
Or(a, b) == IF Truthy(a) THEN a ELSE b

\* d.get(k) on a dict value (keys are unique in a dict).
Get(d, k) ==
    LET hits == {i \in 1..Len(d.items) : d.items[i][1] = k}
    IN  IF hits = {} THEN None ELSE d.items[CHOOSE i \in hits : TRUE][2]

HasKey(d, k) == \E i \in 1..Len(d.items) : d.items[i][1] = k

(***************************************************************************)
(* Strings: sequences of one-character strings.                            *)
(***************************************************************************)
Digits == {"0", "1", "2", "3", "4", "5", "6", "7", "8", "9"}
Space == {" "}

DigitVal(c) ==
    CASE c = "0" -> 0 [] c = "1" -> 1 [] c = "2" -> 2 [] c = "3" -> 3 [] c = "4" -> 4
      [] c = "5" -> 5 [] c = "6" -> 6 [] c = "7" -> 7 [] c = "8" -> 8 [] c = "9" -> 9

DigitChar(n) ==
    CASE n = 0 -> "0" [] n = 1 -> "1" [] n = 2 -> "2" [] n = 3 -> "3" [] n = 4 -> "4"
      [] n = 5 -> "5" [] n = 6 -> "6" [] n = 7 -> "7" [] n = 8 -> "8" [] n = 9 -> "9"

RECURSIVE LStrip(_)
LStrip(s) == IF s # <<>> /\ Head(s) \in Space THEN LStrip(Tail(s)) ELSE s

RECURSIVE RStrip(_)
RStrip(s) ==
    IF s # <<>> /\ s[Len(s)] \in Space THEN RStrip(SubSeq(s, 1, Len(s) - 1)) ELSE s

\* str.strip()
Strip(s) == RStrip(LStrip(s))

\* str(n) for an int n
RECURSIVE NatToStr(_)
NatToStr(n) == IF n < 10 THEN <<DigitChar(n)>> ELSE Append(NatToStr(n \div 10), DigitChar(n % 10))

IntToStr(n) == IF n < 0 THEN <<"-">> \o NatToStr(-n) ELSE NatToStr(n)

UpperSeq == <<"A", "B", "C", "D", "E", "F", "G", "H", "I", "J", "K", "L", "M",
              "N", "O", "P", "Q", "R", "S", "T", "U", "V", "W", "X", "Y", "Z">>
LowerSeq == <<"a", "b", "c", "d", "e", "f", "g", "h", "i", "j", "k", "l", "m",
              "n", "o", "p", "q", "r", "s", "t", "u", "v", "w", "x", "y", "z">>
Uppers == {UpperSeq[i] : i \in 1..26}
Lowers == {LowerSeq[i] : i \in 1..26}

\* \w of the regular expressions, over the model's ASCII alphabet
WordChars == Digits \cup Uppers \cup Lowers \cup {"_"}

\* str.lower()
LowerChar(c) == IF c \in Uppers THEN LowerSeq[CHOOSE i \in 1..26 : UpperSeq[i] = c] ELSE c
Lower(s) == [i \in 1..Len(s) |-> LowerChar(s[i])]

\* `sub in s`
Contains(s, sub) == \E i \in 1..(Len(s) - Len(sub) + 1) : SubSeq(s, i, i + Len(sub) - 1) = sub

\* re.sub(r"\s+", " ", s)
RECURSIVE CollapseSpaces(_)
CollapseSpaces(s) ==
    IF s = <<>> THEN <<>>
    ELSE IF Head(s) \in Space
         THEN <<" ">> \o CollapseSpaces(LStrip(s))
         ELSE <<Head(s)>> \o CollapseSpaces(Tail(s))

\* The first occurrence of each element, in order: list(dict.fromkeys(xs))
RECURSIVE Dedup(_)
Dedup(xs) ==
    IF xs = <<>> THEN <<>>
    ELSE LET front == Dedup(SubSeq(xs, 1, Len(xs) - 1))
             last == xs[Len(xs)]
         IN  IF \E i \in 1..Len(front) : front[i] = last THEN front ELSE Append(front, last)

(***************************************************************************)
(* HELPERS NIT                                                             *)
(***************************************************************************)
\* only_digits(s): re.sub(r"\D", "", s or "")
only_digits(s) == SelectSeq(s, LAMBDA c : c \in Digits)

\* Faulty variant: the threshold is off by one, a 9-digit run keeps its check digit.
nit_base_sin_dv_gt9(s) ==
    LET digits == only_digits(s)
    IN  IF Len(digits) > 9 THEN SubSeq(digits, 1, Len(digits) - 1) ELSE digits

\* Faulty variant: the first digit is dropped instead of the last.
nit_base_sin_dv_first(s) ==
    LET digits == only_digits(s)
    IN  IF Len(digits) >= 9 THEN Tail(digits) ELSE digits

\* nit_base_sin_dv(s): digits[:-1] if len(digits) >= 9 else digits
nit_base_sin_dv(s) ==
    LET digits == only_digits(s)
    IN  IF Len(digits) >= 9 THEN SubSeq(digits, 1, Len(digits) - 1) ELSE digits

\* extract_nit_from_payload(nit, vat): the raw identifier, or None
extract_nit_from_payload(nit, vat) ==
    IF Truthy(nit) /\ IsStr(nit) /\ Strip(nit.s) # <<>> THEN Str(Strip(nit.s))
    ELSE IF vat = None \/ vat = PyBool(FALSE) THEN None
    ELSE IF vat.t \in {"int", "bool"} THEN Str(IntToStr(IF vat.t = "bool" THEN 1 ELSE vat.n))
    ELSE IF IsStr(vat) /\ Strip(vat.s) # <<>> THEN Str(Strip(vat.s))
    ELSE None

(***************************************************************************)
(* int(x), and the zero-padded formats of build_id_rm.                     *)
(***************************************************************************)
RECURSIVE DigitsToNat(_)
DigitsToNat(s) == IF s = <<>> THEN 0 ELSE 10 * DigitsToNat(SubSeq(s, 1, Len(s) - 1)) + DigitVal(s[Len(s)])

AllDigits(s) == s # <<>> /\ \A i \in 1..Len(s) : s[i] \in Digits

\* int(v): [ok, n]; ok = FALSE stands for the ValueError / TypeError it raises.
PyIntOf(v) ==
    CASE v.t = "int" -> [ok |-> TRUE, n |-> v.n]
      [] v.t = "bool" -> [ok |-> TRUE, n |-> IF v.b THEN 1 ELSE 0]
      [] v.t = "str" ->
           LET s == Strip(v.s)
               signed == s # <<>> /\ Head(s) \in {"-", "+"}
               body == IF signed THEN Tail(s) ELSE s
           IN  IF AllDigits(body)
               THEN [ok |-> TRUE, n |-> IF signed /\ Head(s) = "-" THEN -DigitsToNat(body) ELSE DigitsToNat(body)]
               ELSE [ok |-> FALSE, n |-> 0]
      [] OTHER -> [ok |-> FALSE, n |-> 0]

RECURSIVE PadLeft(_, _)
PadLeft(s, w) == IF Len(s) >= w THEN s ELSE PadLeft(<<"0">> \o s, w)

\* f"{n:0{w}d}": the sign counts in the width, and a longer number is not cut
ZeroPad(n, w) == IF n < 0 THEN <<"-">> \o PadLeft(NatToStr(-n), w - 1) ELSE PadLeft(NatToStr(n), w)

(***************************************************************************)
(* UTILS FECHAS                                                            *)
(***************************************************************************)
IsLeap(y) == (y % 4 = 0 /\ y % 100 # 0) \/ y % 400 = 0

DaysInMonth(y, m) ==
    IF m = 2 THEN (IF IsLeap(y) THEN 29 ELSE 28)
    ELSE IF m \in {4, 6, 9, 11} THEN 30 ELSE 31

\* what datetime.date accepts
ValidDate(y, m, d) == y \in 1..9999 /\ m \in 1..12 /\ d >= 1 /\ d <= DaysInMonth(y, m)

\* date.isoformat()
IsoFormat(y, m, d) == Str(PadLeft(NatToStr(y), 4) \o <<"-">> \o PadLeft(NatToStr(m), 2) \o <<"-">> \o PadLeft(NatToStr(d), 2))

\* The calendar date `z` days after 1970-01-01 (z >= 0), as isoformat().
DateOfDays(z) ==
    LET z1 == z + 719468
        era == z1 \div 146097
        doe == z1 - era * 146097
        yoe == (doe - doe \div 1460 + doe \div 36524 - doe \div 146096) \div 365
        doy == doe - (365 * yoe + yoe \div 4 - yoe \div 100)
        mp == (5 * doy + 2) \div 153
        d == doy - (153 * mp + 2) \div 5 + 1
        m == IF mp < 10 THEN mp + 3 ELSE mp - 9
        y == yoe + era * 400 + (IF m <= 2 THEN 1 ELSE 0)
    IN  IsoFormat(y, m, d)

RECURSIVE StripZeros(_)
StripZeros(s) == IF Len(s) > 1 /\ Head(s) = "0" THEN StripZeros(Tail(s)) ELSE s

\* Long division of a decimal digit string by 86400: the whole days in it.
RECURSIVE DaysIn(_, _, _)
DaysIn(s, q, rem) ==
    IF s = <<>> THEN q
    ELSE LET cur == rem * 10 + DigitVal(Head(s))
         IN  DaysIn(Tail(s), q * 10 + cur \div 86400, cur % 86400)

\* datetime.fromtimestamp(secs, tz=utc).date().isoformat() for a digit string
\* of seconds; None stands for the exception an out-of-range value raises.
DateOfSeconds(secs) ==
    LET n == StripZeros(secs)
    IN  IF Len(n) > 12 THEN None
        ELSE IF DaysIn(n, 0, 0) > 2932896 THEN None    \* past 9999-12-31
        ELSE DateOfDays(DaysIn(n, 0, 0))

\* Faulty variant: the milliseconds are taken for seconds.
MillisAsSeconds(ms) == ms

\* int(ms) / 1000 seconds: the digit string without its last three digits
MillisToSeconds(ms) == IF Len(ms) <= 3 THEN <<"0">> ELSE SubSeq(ms, 1, Len(ms) - 3)

\* int(s) > 10_000_000_000 for a digit string s
Over10e10(s) ==
    LET n == StripZeros(s)
    IN  Len(n) > 11 \/ (Len(n) = 11 /\ n # <<"1", "0", "0", "0", "0", "0", "0", "0", "0", "0", "0">>)

\* s.replace("Z", "+00:00")
RECURSIVE ReplaceZ(_)
ReplaceZ(s) ==
    IF s = <<>> THEN <<>>
    ELSE (IF Head(s) = "Z" THEN <<"+", "0", "0", ":", "0", "0">> ELSE <<Head(s)>>) \o ReplaceZ(Tail(s))

TwoDigits(s, i) == i + 1 <= Len(s) /\ s[i] \in Digits /\ s[i + 1] \in Digits
TwoVal(s, i) == 10 * DigitVal(s[i]) + DigitVal(s[i + 1])

\* HH[:MM[:SS]] with an optional (+|-)HH:MM after it, as fromisoformat reads
\* the part following the date and its one-character separator.
IsoOffsetOk(o) ==
    \/ o = <<>>
    \/ /\ Len(o) = 6 /\ o[1] \in {"+", "-"} /\ TwoDigits(o, 2) /\ o[4] = ":" /\ TwoDigits(o, 5)
       /\ TwoVal(o, 2) <= 23 /\ TwoVal(o, 5) <= 59

IsoTimeOk(x) ==
    LET cut == IF \E i \in 1..Len(x) : x[i] \in {"+", "-"}
               THEN (CHOOSE i \in 1..Len(x) : x[i] \in {"+", "-"} /\ \A j \in 1..(i - 1) : x[j] \notin {"+", "-"}) - 1
               ELSE Len(x)
        tm == SubSeq(x, 1, cut)
        off == SubSeq(x, cut + 1, Len(x))
    IN  /\ IsoOffsetOk(off)
        /\ \/ Len(tm) = 2 /\ TwoDigits(tm, 1) /\ TwoVal(tm, 1) <= 23
           \/ Len(tm) = 5 /\ TwoDigits(tm, 1) /\ tm[3] = ":" /\ TwoDigits(tm, 4)
              /\ TwoVal(tm, 1) <= 23 /\ TwoVal(tm, 4) <= 59
           \/ Len(tm) = 8 /\ TwoDigits(tm, 1) /\ tm[3] = ":" /\ TwoDigits(tm, 4) /\ tm[6] = ":" /\ TwoDigits(tm, 7)
              /\ TwoVal(tm, 1) <= 23 /\ TwoVal(tm, 4) <= 59 /\ TwoVal(tm, 7) <= 59

\* datetime.fromisoformat(x).date().isoformat() for the form YYYY-MM-DD[*HH[:MM[:SS]][(+|-)HH:MM]];
\* None stands for the ValueError of any other text.
FromIsoFormat(x) ==
    IF /\ Len(x) >= 10
       /\ \A i \in {1, 2, 3, 4, 6, 7, 9, 10} : x[i] \in Digits
       /\ x[5] = "-" /\ x[8] = "-"
       /\ ValidDate(DigitsToNat(SubSeq(x, 1, 4)), TwoVal(x, 6), TwoVal(x, 9))
       /\ (Len(x) = 10 \/ (Len(x) >= 12 /\ IsoTimeOk(SubSeq(x, 12, Len(x)))))
    THEN IsoFormat(DigitsToNat(SubSeq(x, 1, 4)), TwoVal(x, 6), TwoVal(x, 9))
    ELSE None

\* re.match(r"^/Date\((\d+)\)/$", s): the digits, or <<>> when there is no match
DateWrapperDigits(x) ==
    IF /\ Len(x) >= 9
       /\ SubSeq(x, 1, 6) = <<"/", "D", "a", "t", "e", "(">>
       /\ SubSeq(x, Len(x) - 1, Len(x)) = <<")", "/">>
       /\ AllDigits(SubSeq(x, 7, Len(x) - 2))
    THEN SubSeq(x, 7, Len(x) - 2)
    ELSE <<>>

\* The fields of x between the "/" characters.
RECURSIVE SplitSlash(_, _, _)
SplitSlash(x, cur, acc) ==
    IF x = <<>> THEN Append(acc, cur)
    ELSE IF Head(x) = "/" THEN SplitSlash(Tail(x), <<>>, Append(acc, cur))
    ELSE SplitSlash(Tail(x), Append(cur, Head(x)), acc)

\* datetime.strptime(x, "%d/%m/%Y").date().isoformat(); None for the ValueError
StrpDMY(x) ==
    LET f == SplitSlash(x, <<>>, <<>>)
    IN  IF /\ Len(f) = 3
           /\ Len(f[1]) \in {1, 2} /\ AllDigits(f[1])
           /\ Len(f[2]) \in {1, 2} /\ AllDigits(f[2])
           /\ Len(f[3]) = 4 /\ AllDigits(f[3])
           /\ ValidDate(DigitsToNat(f[3]), DigitsToNat(f[2]), DigitsToNat(f[1]))
        THEN IsoFormat(DigitsToNat(f[3]), DigitsToNat(f[2]), DigitsToNat(f[1]))
        ELSE None

\* str(value)
PyStr(v) ==
    CASE v.t = "str" -> v.s
      [] v.t = "int" -> IntToStr(v.n)
      [] v.t = "bool" -> IF v.b THEN <<"T", "r", "u", "e">> ELSE <<"F", "a", "l", "s", "e">>
      [] OTHER -> <<"?">>

\* _to_iso_date(value): ISO-8601, then /Date(ms)/, then a bare integer, then d/m/Y
_to_iso_date(value) ==
    IF ~Truthy(value) THEN None
    ELSE LET x == Strip(PyStr(value))
             iso == FromIsoFormat(ReplaceZ(x))
             wrapped == DateWrapperDigits(x)
             fromWrapped == IF wrapped # <<>> THEN DateOfSeconds(MillisToSeconds(wrapped)) ELSE None
             fromDigits ==
                 IF AllDigits(x)
                 THEN DateOfSeconds(IF Over10e10(x) THEN MillisToSeconds(StripZeros(x)) ELSE x)
                 ELSE None
         IN  IF iso # None THEN iso
             ELSE IF fromWrapped # None THEN fromWrapped
             ELSE IF fromDigits # None THEN fromDigits
             ELSE StrpDMY(x)

(***************************************************************************)
(* UTILS CAMPOS                                                            *)
(***************************************************************************)
\* _first_nonempty_str(*vals): the first str whose strip() is non-empty, stripped
RECURSIVE _first_nonempty_str(_)
_first_nonempty_str(vs) ==
    IF vs = <<>> THEN None
    ELSE IF IsStr(Head(vs)) /\ Strip(Head(vs).s) # <<>> THEN Str(Strip(Head(vs).s))
    ELSE _first_nonempty_str(Tail(vs))

\* detalle.get("empresa") if it is a dict, else None
EmpresaOf(detalle_) ==
    IF IsDict(Get(detalle_, "empresa")) THEN Get(detalle_, "empresa") ELSE None

\* emp.get(k) if emp else None (an empty dict is falsy, and gives None as well)
EmpGet(emp, k) == IF Truthy(emp) THEN Get(emp, k) ELSE None

\* extract_name_sigla(detalle) -> (razon_social, sigla)
extract_name_sigla(detalle_) ==
    LET empresa == EmpresaOf(detalle_)
    IN  [razon_social |->
             _first_nonempty_str(<<Get(detalle_, "razonSocial"), Get(detalle_, "razon_social"),
                                   EmpGet(empresa, "razonSocial"), EmpGet(empresa, "razon_social")>>),
         sigla |->
             _first_nonempty_str(<<Get(detalle_, "sigla"), EmpGet(empresa, "sigla")>>)]

\* The first non-empty string under the CIIU code keys of one item
CiiuOfItem(item) ==
    _first_nonempty_str(<<Get(item, "codigoCIIU"), Get(item, "ciiu"), Get(item, "codigo"), Get(item, "codigoCiiu")>>)

\* What one entry of posibles_listas gives: a code, or None
CiiuOfLista(lst) ==
    IF IsList(lst) /\ Truthy(lst)
    THEN (IF IsDict(lst.items[1]) THEN CiiuOfItem(lst.items[1]) ELSE None)
    ELSE IF IsDict(lst) THEN CiiuOfItem(lst)
    ELSE None

\* The `for lst in posibles_listas` loop: the first entry that gives a code
RECURSIVE FirstCiiu(_)
FirstCiiu(listas) ==
    IF listas = <<>> THEN None
    ELSE IF Truthy(CiiuOfLista(Head(listas))) THEN CiiuOfLista(Head(listas))
    ELSE FirstCiiu(Tail(listas))

PersonNombre(p) ==
    _first_nonempty_str(<<Get(p, "nombre"), Get(p, "nombreCompleto"), Get(p, "razonSocial"), Get(p, "nombres")>>)

PersonRol(p) == _first_nonempty_str(<<Get(p, "rol"), Get(p, "cargo"), Get(p, "tipo")>>)

IsRepresentante(rol) ==
    Truthy(rol) /\ Contains(Lower(rol.s), <<"r", "e", "p", "r", "e", "s", "e", "n", "t", "a", "n", "t", "e">>)

\* The `for p in bloque` loop over a list block, from the names collected so far
RECURSIVE NombresOfList(_, _)
NombresOfList(ps, nombres) ==
    IF ps = <<>> THEN nombres
    ELSE LET p == Head(ps)
         IN  IF ~IsDict(p) THEN NombresOfList(Tail(ps), nombres)
             ELSE IF IsRepresentante(PersonRol(p))
                  THEN NombresOfList(Tail(ps), IF Truthy(PersonNombre(p)) THEN Append(nombres, PersonNombre(p).s) ELSE nombres)
             ELSE IF nombres = <<>> /\ Truthy(PersonNombre(p))
                  THEN NombresOfList(Tail(ps), Append(nombres, PersonNombre(p).s))
             ELSE NombresOfList(Tail(ps), nombres)

\* The `for bloque in candidatos_reps` loop
RECURSIVE NombresOfBloques(_, _)
NombresOfBloques(bloques, nombres) ==
    IF bloques = <<>> THEN nombres
    ELSE LET b == Head(bloques)
         IN  IF IsList(b) THEN NombresOfBloques(Tail(bloques), NombresOfList(b.items, nombres))
             ELSE IF IsDict(b) /\ Truthy(PersonNombre(b))
                  THEN NombresOfBloques(Tail(bloques), Append(nombres, PersonNombre(b).s))
             ELSE NombresOfBloques(Tail(bloques), nombres)

\* ", ".join(nombres[:2])
JoinTwo(nombres) ==
    IF Len(nombres) = 1 THEN nombres[1] ELSE nombres[1] \o <<",", " ">> \o nombres[2]

AnyTruthy(vs) == \E i \in 1..Len(vs) : Truthy(vs[i])

\* extract_rues_extras(detalle) -> {fecha_matricula, ciiu, representante_legal}
extract_rues_extras(detalle_) ==
    LET empIsDict == IsDict(Get(detalle_, "empresa"))
        emp == Get(detalle_, "empresa")
        fecha0 == _first_nonempty_str(<<Get(detalle_, "fechaMatricula"), Get(detalle_, "fecha_matricula"),
                                        Get(detalle_, "fechaMatriculaRegistro"), Get(detalle_, "fechaInscripcion"),
                                        Get(detalle_, "fechaConstitucion")>>)
        fecha == IF ~Truthy(fecha0) /\ empIsDict
                 THEN _first_nonempty_str(<<Get(emp, "fechaMatricula"), Get(emp, "fechaInscripcion"), Get(emp, "fechaConstitucion")>>)
                 ELSE fecha0
        listas0 == <<Get(detalle_, "actividadesEconomicas"), Get(detalle_, "actividades"), Get(detalle_, "actividadEconomica")>>
        posibles_listas ==
            IF ~AnyTruthy(listas0) /\ empIsDict
            THEN <<Get(emp, "actividadesEconomicas"), Get(emp, "actividades"), Get(emp, "actividadEconomica")>>
            ELSE listas0
        reps0 == <<Get(detalle_, "representantesLegales"), Get(detalle_, "representantes"), Get(detalle_, "apoderados"),
                   Get(detalle_, "junta"), Get(detalle_, "personas")>>
        candidatos_reps ==
            IF ~AnyTruthy(reps0) /\ empIsDict
            THEN <<Get(emp, "representantesLegales"), Get(emp, "representantes"), Get(emp, "apoderados"),
                   Get(emp, "junta"), Get(emp, "personas")>>
            ELSE reps0
        nombres == Dedup(NombresOfBloques(candidatos_reps, <<>>))
    IN  [fecha_matricula |-> _to_iso_date(fecha),
         ciiu |-> FirstCiiu(posibles_listas),
         representante_legal |-> IF nombres # <<>> THEN Str(JoinTwo(nombres)) ELSE None]

(***************************************************************************)
(* HELPERS RECURSIVOS (CIIU / REPRESENTANTE)                               *)
(***************************************************************************)
\* _iter_kv(obj): the <<key, value>> pairs of every nested dict, a pair before
\* the pairs inside its value; list items are entered but not yielded.
RECURSIVE _iter_kv(_)
RECURSIVE IterItems(_)
RECURSIVE IterList(_)
_iter_kv(cur) ==
    IF IsDict(cur) THEN IterItems(cur.items)
    ELSE IF IsList(cur) THEN IterList(cur.items)
    ELSE <<>>
IterItems(kvs) ==
    IF kvs = <<>> THEN <<>>
    ELSE <<Head(kvs)>> \o _iter_kv(Head(kvs)[2]) \o IterItems(Tail(kvs))
IterList(xs) ==
    IF xs = <<>> THEN <<>> ELSE _iter_kv(Head(xs)) \o IterList(Tail(xs))

\* _CIIU_KEY_RE = (ciiu|actividad|codigo.*ciiu), re.I, searched in a key: the
\* keys of the model's documents that it matches.
_CIIU_KEY_RE(k) ==
    k \in {"actividadesEconomicas", "actividades", "actividadEconomica", "codigoCIIU", "ciiu", "codigoCiiu"}

\* _REP_KEY_RE = represent, re.I
_REP_KEY_RE(k) == k \in {"representantesLegales", "representantes", "representacionLegal"}

\* _CIIU_VAL_RE = \b(\d{4})\b searched in a string: the first run of exactly
\* four digits with no word character on either side, or None.
_CIIU_VAL_RE(x) ==
    LET at(i) == /\ \A j \in i..(i + 3) : x[j] \in Digits
                 /\ (i = 1 \/ x[i - 1] \notin WordChars)
                 /\ (i + 3 = Len(x) \/ x[i + 4] \notin WordChars)
        hits == {i \in 1..(Len(x) - 3) : at(i)}
    IN  IF hits = {} THEN None
        ELSE LET i == CHOOSE i \in hits : \A j \in hits : i <= j
             IN  Str(SubSeq(x, i, i + 3))

\* The first code in the str values of a sequence of <<key, value>> pairs
RECURSIVE FirstCodeInValues(_)
FirstCodeInValues(kvs) ==
    IF kvs = <<>> THEN None
    ELSE IF IsStr(Head(kvs)[2]) /\ _CIIU_VAL_RE(Head(kvs)[2].s) # None THEN _CIIU_VAL_RE(Head(kvs)[2].s)
    ELSE FirstCodeInValues(Tail(kvs))

\* `for item in v` under a matching key whose value is a list
RECURSIVE FirstCodeInListItems(_)
FirstCodeInListItems(xs) ==
    IF xs = <<>> THEN None
    ELSE LET item == Head(xs)
             got == IF IsDict(item) THEN FirstCodeInValues(_iter_kv(item))
                    ELSE IF IsStr(item) THEN _CIIU_VAL_RE(item.s)
                    ELSE None
         IN  IF got # None THEN got ELSE FirstCodeInListItems(Tail(xs))

\* What one <<k, v>> gives in the first pass of find_first_ciiu_anywhere
CodeUnderKey(k, v) ==
    IF ~_CIIU_KEY_RE(k) THEN None
    ELSE IF IsStr(v) THEN _CIIU_VAL_RE(v.s)
    ELSE IF IsDict(v) THEN FirstCodeInValues(_iter_kv(v))
    ELSE IF IsList(v) THEN FirstCodeInListItems(v.items)
    ELSE None

RECURSIVE FirstCodeUnderKeys(_)
FirstCodeUnderKeys(kvs) ==
    IF kvs = <<>> THEN None
    ELSE IF CodeUnderKey(Head(kvs)[1], Head(kvs)[2]) # None THEN CodeUnderKey(Head(kvs)[1], Head(kvs)[2])
    ELSE FirstCodeUnderKeys(Tail(kvs))

\* Faulty variant: the pass over the ciiu/actividad keys is left out.
find_first_ciiu_global(registro) == FirstCodeInValues(_iter_kv(registro))

\* find_first_ciiu_anywhere(registro): by ciiu/actividad keys, then any str value
find_first_ciiu_anywhere(registro) ==
    IF FirstCodeUnderKeys(_iter_kv(registro)) # None
    THEN FirstCodeUnderKeys(_iter_kv(registro))
    ELSE FirstCodeInValues(_iter_kv(registro))

_NAME_KEYS == <<"nombreCompleto", "nombre", "razonSocial", "nombres">>

NameChars == Uppers \cup Space \cup {"."}

\* re.search(r"-\s*([A-Z...][A-Z...\s\.]+)$", x): the group of the leftmost match, or <<>>
DashName(x) ==
    LET nameAt(j) == /\ j + 1 <= Len(x)
                     /\ x[j] \in Uppers
                     /\ \A m \in (j + 1)..Len(x) : x[m] \in NameChars
        startOf(i) == i + 1 + Len(SubSeq(x, i + 1, Len(x))) - Len(LStrip(SubSeq(x, i + 1, Len(x))))
        hits == {i \in 1..Len(x) : x[i] = "-" /\ nameAt(startOf(i))}
    IN  IF hits = {} THEN <<>>
        ELSE LET i == CHOOSE i \in hits : \A j \in hits : i <= j
             IN  SubSeq(x, startOf(i), Len(x))

RECURSIVE FirstNameKey(_, _)
FirstNameKey(d, keys) ==
    IF keys = <<>> THEN None
    ELSE IF IsStr(Get(d, Head(keys))) /\ Strip(Get(d, Head(keys)).s) # <<>>
         THEN Str(CollapseSpaces(Strip(Get(d, Head(keys)).s)))
    ELSE FirstNameKey(d, Tail(keys))

RECURSIVE FirstDashName(_)
FirstDashName(kvs) ==
    IF kvs = <<>> THEN None
    ELSE LET v == Head(kvs)[2]
         IN  IF IsStr(v) /\ Contains(v.s, <<"-">>) /\ DashName(Strip(v.s)) # <<>>
             THEN Str(Strip(CollapseSpaces(DashName(Strip(v.s)))))
             ELSE FirstDashName(Tail(kvs))

\* _extract_name_from_person(d)
_extract_name_from_person(d) ==
    IF FirstNameKey(d, _NAME_KEYS) # None THEN FirstNameKey(d, _NAME_KEYS)
    ELSE FirstDashName(_iter_kv(d))

\* The lower-cased role of a person: the first non-blank str of rol, cargo, tipo
RECURSIVE RolLower(_, _)
RolLower(person, keys) ==
    IF keys = <<>> THEN None
    ELSE IF IsStr(Get(person, Head(keys))) /\ Strip(Get(person, Head(keys)).s) # <<>>
         THEN Str(Lower(Get(person, Head(keys)).s))
    ELSE RolLower(person, Tail(keys))

IsPrincipal(person) ==
    LET rol == RolLower(person, <<"rol", "cargo", "tipo">>)
    IN  Truthy(rol) /\ Contains(rol.s, <<"p", "r", "i", "n", "c", "i", "p", "a", "l">>)

\* The names a list under a "represent" key adds: [principales, generales]
RECURSIVE CandidatosOfList(_, _)
CandidatosOfList(ps, acc) ==
    IF ps = <<>> THEN acc
    ELSE LET person == Head(ps)
             name == IF IsDict(person) THEN _extract_name_from_person(person) ELSE None
         IN  IF ~Truthy(name) THEN CandidatosOfList(Tail(ps), acc)
             ELSE IF IsPrincipal(person)
                  THEN CandidatosOfList(Tail(ps), [acc EXCEPT !.principales = Append(@, name)])
             ELSE CandidatosOfList(Tail(ps), [acc EXCEPT !.generales = Append(@, name)])

RECURSIVE Candidatos(_, _)
Candidatos(kvs, acc) ==
    IF kvs = <<>> THEN acc
    ELSE LET k == Head(kvs)[1]
             v == Head(kvs)[2]
         IN  IF ~_REP_KEY_RE(k) THEN Candidatos(Tail(kvs), acc)
             ELSE IF IsList(v) THEN Candidatos(Tail(kvs), CandidatosOfList(v.items, acc))
             ELSE IF IsDict(v) /\ Truthy(_extract_name_from_person(v))
                  THEN Candidatos(Tail(kvs), [acc EXCEPT !.generales = Append(@, _extract_name_from_person(v))])
             ELSE Candidatos(Tail(kvs), acc)

\* find_first_representante_anywhere(registro): principal candidates before the others
find_first_representante_anywhere(registro) ==
    LET c == Candidatos(_iter_kv(registro), [principales |-> <<>>, generales |-> <<>>])
    IN  IF c.principales # <<>> THEN c.principales[1]
        ELSE IF c.generales # <<>> THEN c.generales[1]
        ELSE None

(***************************************************************************)
(* RUES / DATOS ABIERTOS                                     *)
(***************************************************************************)
\* Faulty variant: a value that is no integer counts as 0 instead of giving None.
build_id_rm_nofail(codigo_camara, matricula) ==
    Str(ZeroPad(PyIntOf(codigo_camara).n, 2) \o ZeroPad(PyIntOf(matricula).n, 10))

\* build_id_rm(codigo_camara, matricula): f"{int(codigo_camara):02d}{int(matricula):010d}", or None
build_id_rm(codigo_camara, matricula) ==
    LET c == PyIntOf(codigo_camara)
        m == PyIntOf(matricula)
    IN  IF c.ok /\ m.ok THEN Str(ZeroPad(c.n, 2) \o ZeroPad(m.n, 10)) ELSE None

\* Faulty variant: the key "registro" is looked at before "registros".
unwrap_registro_first(js) ==
    IF ~IsDict(js) THEN Dict(<<>>)
    ELSE LET regs == Get(js, "registros")
             reg == Get(js, "registro")
         IN  IF HasKey(js, "registro") /\ IsDict(reg) THEN reg
             ELSE IF HasKey(js, "registros") /\ IsList(regs) /\ Truthy(regs) /\ IsDict(regs.items[1])
                 THEN regs.items[1]
             ELSE IF HasKey(js, "registros") /\ IsDict(regs) /\ Truthy(regs) THEN regs
             ELSE js

\* unwrap_rues_registro(js)
unwrap_rues_registro(js) ==
    IF ~IsDict(js) THEN Dict(<<>>)
    ELSE LET regs == Get(js, "registros")
             reg == Get(js, "registro")
         IN  IF HasKey(js, "registros") /\ IsList(regs) /\ Truthy(regs) /\ IsDict(regs.items[1])
                 THEN regs.items[1]
             ELSE IF HasKey(js, "registros") /\ IsDict(regs) /\ Truthy(regs) THEN regs
             ELSE IF HasKey(js, "registro") /\ IsDict(reg) THEN reg
             ELSE js

\* The sort key of fetch_socrata: int((x.get("matricula") or "0") or 0)
MatriculaKey(x) == PyIntOf(Or(Or(Get(x, "matricula"), Str(<<"0">>)), PyInt(0)))

\* data.sort(key=..., reverse=True): stable, descending (insertion sort of the keys)
RECURSIVE InsertDesc(_, _)
InsertDesc(sorted, x) ==
    IF sorted = <<>> THEN <<x>>
    ELSE IF MatriculaKey(Head(sorted)).n >= MatriculaKey(x).n THEN <<Head(sorted)>> \o InsertDesc(Tail(sorted), x)
    ELSE <<x>> \o sorted

RECURSIVE SortDesc(_)
SortDesc(data) ==
    IF data = <<>> THEN <<>> ELSE InsertDesc(SortDesc(SubSeq(data, 1, Len(data) - 1)), data[Len(data)])

\* fetch_socrata, from the decoded body on: None for no rows, else the first
\* row after the sort (a key that raises leaves the list as it came).
SocrataPick(data) ==
    IF data = <<>> THEN None
    ELSE IF \A i \in 1..Len(data) : MatriculaKey(data[i]).ok THEN SortDesc(data)[1]
    ELSE data[1]

(***************************************************************************)
(* FALLBACK HTML: what the parsers read off a page.  A detail page is      *)
(* given by what each lookup finds in it: [name, sigla, fecha, ciiu,       *)
(* representante], each None or a non-empty str (the heading loop, the     *)
(* label lookups, the CIIU search and _extract_representante_from_soup     *)
(* all return None or non-empty text).                                     *)
(***************************************************************************)
\* The parsed dict of fetch_detail_from_web_id
ParsedById(page) ==
    Dict(<< <<"razon_social", page.name>>, <<"sigla", page.sigla>>,
            <<"fecha_matricula", _to_iso_date(page.fecha)>>, <<"ciiu", page.ciiu>>,
            <<"representante_legal", page.representante>> >>)

\* The parsed dict of fetch_detail_from_html: razon_social = razon_social or name_detail
ParsedBySearch(title, page) ==
    Dict(<< <<"razon_social", Or(title, page.name)>>, <<"sigla", page.sigla>>,
            <<"fecha_matricula", _to_iso_date(page.fecha)>>, <<"ciiu", page.ciiu>>,
            <<"representante_legal", page.representante>> >>)

\* return {"razon_social": razon_social}: no detail link, or a detail page that is not 200
TitleOnly(title) == Dict(<< <<"razon_social", title>> >>)

(***************************************************************************)
(* ENDPOINTS: the merges of the handlers.                                  *)
(***************************************************************************)
\* row.get(k) if row else None
RowGet(row_, k) == IF Truthy(row_) THEN Get(row_, k) ELSE None

\* Faulty variant: the HTML value wins over a field that is already filled.
MergeHtmlOverwrite(cur, h, k) == IF Truthy(h) THEN Or(Get(h, k), cur) ELSE cur

\* if html: field = field or html.get(k)
MergeHtml(cur, h, k) == IF Truthy(h) THEN Or(cur, Get(h, k)) ELSE cur

\* if html_parsed: field = field or (row.get(k) if row else None) or html_parsed.get(k)
MergeFallback(cur, row_, h, k) == IF Truthy(h) THEN Or(Or(cur, RowGet(row_, k)), Get(h, k)) ELSE cur

\* Faulty variant: only the key "id" is looked at.
WebIdOfIdOnly(detalle_) == Get(detalle_, "id")

\* detalle.get("id") or detalle.get("id_detalle") or detalle.get("id_detalle_web")
WebIdOf(detalle_) == Or(Or(Get(detalle_, "id"), Get(detalle_, "id_detalle")), Get(detalle_, "id_detalle_web"))

\* (detalle.get(k) or "").strip() raises AttributeError on a truthy value that is no str
StripRaises(detalle_, k) == Truthy(Get(detalle_, k)) /\ ~IsStr(Get(detalle_, k))

\* (detalle.get(k) or "").strip() or None
StripOrNone(detalle_, k) ==
    IF Truthy(Get(detalle_, k)) /\ IsStr(Get(detalle_, k)) /\ Strip(Get(detalle_, k).s) # <<>>
    THEN Str(Strip(Get(detalle_, k).s))
    ELSE None

(***************************************************************************)
(* The request, before the handler has run.                                *)
(***************************************************************************)
NotFetched == [t |-> "NotFetched"]
NoResponse == [status |-> 0]

orch_vars == <<endpoint, payload, pc, nit_digits, current, row, id_rm, tpl, detalle,
               razon_social, sigla, fecha_matricula, ciiu, representante_legal, html,
               search_title, vals, writes, partner, calls, response>>

Locals0 ==
    /\ pc = "start"
    /\ nit_digits = <<>>
    /\ current = None
    /\ row = None
    /\ id_rm = None
    /\ tpl = 1
    /\ detalle = Dict(<<>>)
    /\ razon_social = None
    /\ sigla = None
    /\ fecha_matricula = None
    /\ ciiu = None
    /\ representante_legal = None
    /\ html = NotFetched
    /\ search_title = None
    /\ vals = <<>>
    /\ writes = <<>>
    /\ calls = <<>>
    /\ response = NoResponse

(***************************************************************************)
(* The environment: the request bodies, and what each external service may *)
(* answer.                                                                 *)
(***************************************************************************)
Payloads ==
    { [nit |-> Str(<<"9", "0", "0", "1", "2", "3", "4", "5", "6", "-", "7">>), vat |-> None, id |-> 42],
      [nit |-> Str(<<"a", "b", "c">>), vat |-> None, id |-> 42],
      [nit |-> None, vat |-> PyInt(80012345), id |-> 42],
      [nit |-> None, vat |-> PyBool(FALSE), id |-> 42],
      [nit |-> Str(<<" ">>), vat |-> Str(<<"-">>), id |-> 42] }

sA == Str(<<"A">>)
sSA == Str(<<"S", "A">>)
sB == Str(<<"B">>)
sSB == Str(<<"S", "B">>)
sC == Str(<<"C">>)
sSC == Str(<<"S", "C">>)
s7 == Str(<<"7">>)
s123 == Str(<<"1", "2", "3">>)

\* Rows of the open-data index (Socrata leaves out the columns that are null).
RowFull == Dict(<< <<"razon_social", sA>>, <<"sigla", sSA>>, <<"codigo_camara", s7>>, <<"matricula", s123>> >>)
RowNoName == Dict(<< <<"codigo_camara", s7>>, <<"matricula", s123>> >>)
RowNoCodes == Dict(<< <<"razon_social", sA>>, <<"sigla", sSA>> >>)
RowSiglaOnly == Dict(<< <<"sigla", sSA>> >>)
RowBadMatricula == Dict(<< <<"razon_social", sA>>, <<"codigo_camara", s7>>, <<"matricula", Str(<<"N", "/", "A">>)>> >>)
RowOld == Dict(<< <<"razon_social", sB>>, <<"codigo_camara", s7>>, <<"matricula", Str(<<"5">>)>> >>)

\* What the index endpoint may answer: an exception of requests.get, a 4xx/5xx
\* status, a body that is no JSON, or a JSON array of rows.
SocrataAnswers ==
    { [kind |-> "transport_error"], [kind |-> "http_error"], [kind |-> "bad_json"] }
    \cup { [kind |-> "ok", data |-> d] :
             d \in { <<>>, <<RowFull>>, <<RowNoName>>, <<RowNoCodes>>, <<RowSiglaOnly>>,
                     <<RowBadMatricula>>, <<RowOld, RowFull>> } }

\* Detail documents, as the detail endpoints wrap them.
DocAcme ==
    Dict(<< <<"empresa", Dict(<< <<"razonSocial", Str(<<"A", "C", "M", "E", " ", "S", "A", "S">>)>>,
                                 <<"sigla", Str(<<"A", "C", "M", "E">>)>> >>)>> >>)
DocFull ==
    Dict(<< <<"registros", List(<<
        Dict(<< <<"razonSocial", sB>>, <<"sigla", sSB>>,
                <<"fechaMatricula", Str(<<"2", "0", "2", "3", "-", "0", "5", "-", "1", "0", "T", "0", "0", ":", "0", "0", ":", "0", "0", "Z">>)>>,
                <<"actividadesEconomicas", List(<<Dict(<< <<"codigoCIIU", Str(<<"4", "7", "1", "1">>)>> >>)>>)>>,
                <<"representantesLegales", List(<<Dict(<< <<"nombre", Str(<<"A", "N", "A">>)>>,
                                                         <<"rol", Str(<<"R", "e", "p", "r", "e", "s", "e", "n", "t", "a", "n", "t", "e">>)>> >>)>>)>> >>) >>)>> >>)
DocLetterCode ==
    Dict(<< <<"razonSocial", sB>>,
            <<"actividadesEconomicas", List(<<Dict(<< <<"codigoCIIU", Str(<<"G", "4", "7", "1", "1">>)>> >>)>>)>>,
            <<"id", PyInt(55)>> >>)
DocWebId ==
    Dict(<< <<"registro", Dict(<< <<"sigla", sSB>>, <<"id_detalle", Str(<<"5", "5">>)>> >>)>> >>)
DocBadWebId ==
    Dict(<< <<"razonSocial", sB>>, <<"id", Str(<<"x">>)>> >>)
DocScan ==
    Dict(<< <<"actividades", Str(<<"c", "o", "d", "i", "g", "o", " ", "9", "9", "9", "9", " ", "b", "a", "r">>)>>,
            <<"representacionLegal", Dict(<< <<"nombre", Str(<<"L", "U", "I", "S">>)>> >>)>> >>)
DocListName ==
    Dict(<< <<"razon_social", List(<<sB>>)>>, <<"sigla", sSB>>,
            <<"codigoCIIU", Str(<<"4", "7", "1", "1">>)>> >>)
DocEmpty == Dict(<<>>)

DetalleDocs == {DocAcme, DocFull, DocLetterCode, DocWebId, DocBadWebId, DocScan, DocListName, DocEmpty}

\* What one detail endpoint may answer.
DetalleAnswers ==
    { [kind |-> "transport_error"], [kind |-> "non200"], [kind |-> "bad_json"] }
    \cup { [kind |-> "ok", js |-> d] : d \in DetalleDocs }

\* Detail pages of the registry web site, by what the lookups find in them.
PageFull ==
    [name |-> sC, sigla |-> sSC, fecha |-> Str(<<"1", "0", "/", "0", "5", "/", "2", "0", "2", "3">>),
     ciiu |-> Str(<<"6", "2", "0", "1">>), representante |-> Str(<<"J", "U", "A", "N", " ", "P", "E", "R", "E", "Z">>)]
PageNameOnly == [name |-> sC, sigla |-> None, fecha |-> None, ciiu |-> None, representante |-> None]
PageBlank == [name |-> None, sigla |-> None, fecha |-> None, ciiu |-> None, representante |-> None]

DetailPages == {PageFull, PageNameOnly, PageBlank}

\* What GET /detalle/{id}/ may answer: an exception, a status other than 200,
\* an empty body, or a page.
PageAnswers ==
    { [kind |-> "transport_error"], [kind |-> "non200"], [kind |-> "empty_body"] }
    \cup { [kind |-> "ok", page |-> g] : g \in DetailPages }

\* What GET /buscar/RM/{nit} may answer; a page is given by its title
\* (None: no title element; the text may be empty) and whether it has a detail link.
SearchAnswers ==
    { [kind |-> "transport_error"], [kind |-> "non200"] }
    \cup { [kind |-> "ok", title |-> ti, link |-> l] : ti \in {None, Str(<<>>), sC}, l \in BOOLEAN }

\* What the CRM answers to read_fields: _post's (ok, data).
ReadAnswers == {"ok", "error"}

\* What the CRM answers to post_write: _post's data ("ok": the JSON-RPC body
\* with a result; "error": the error payload that comes with ok = False).
WriteAnswers == {"ok", "error"}

(***************************************************************************)
(* ENDPOINTS: /webhook and /webhook/odoo, one request from its arrival to  *)
(* its response.                                                           *)
(***************************************************************************)
NumTemplates == 2       \* len(RUES_DETALLE_URLS)

Init ==
    /\ endpoint \in {"webhook", "webhook_odoo"}
    /\ payload \in Payloads
    /\ partner \in { [name |-> sA, x_sigla |-> sSA], [name |-> sB, x_sigla |-> PyBool(FALSE)] }
    /\ Locals0
    /\ fn_in = <<>>
    /\ fn_out = <<>>
    /\ reqs = <<>>
    /\ wlog = <<>>

fields == <<razon_social, sigla, fecha_matricula, ciiu, representante_legal>>
harness == <<fn_in, fn_out, reqs, wlog>>

\* raise HTTPException(status_code, detail)
Raise(status, detail) ==
    /\ response' = [status |-> status, detail |-> detail]
    /\ pc' = "done"

\* An exception no handler catches: the framework answers 500.
Fault == Raise(500, "Internal Server Error")

\* Faulty variant: the 400 is left out, the handler goes on with an empty identifier.
ValidateNoReject ==
    /\ pc = "start"
    /\ LET raw_nit == extract_nit_from_payload(payload.nit, payload.vat)
       IN  nit_digits' = nit_base_sin_dv(IF Truthy(raw_nit) THEN raw_nit.s ELSE <<>>)
    /\ pc' = IF endpoint = "webhook_odoo" THEN "read_fields" ELSE "socrata"
    /\ UNCHANGED <<endpoint, payload, current, row, id_rm, tpl, detalle, fields, html,
                   search_title, vals, writes, partner, calls, response, harness>>

\* raw_nit, nit_digits and the 400 of both handlers
Validate ==
    /\ pc = "start"
    /\ LET raw_nit == extract_nit_from_payload(payload.nit, payload.vat)
           digits == nit_base_sin_dv(IF Truthy(raw_nit) THEN raw_nit.s ELSE <<>>)
       IN  IF digits = <<>>
           THEN Raise(400, "nit_invalido") /\ UNCHANGED nit_digits
           ELSE /\ nit_digits' = digits
                /\ pc' = IF endpoint = "webhook_odoo" THEN "read_fields" ELSE "socrata"
                /\ UNCHANGED response
    /\ UNCHANGED <<endpoint, payload, current, row, id_rm, tpl, detalle, fields, html,
                   search_title, vals, writes, partner, calls, harness>>

\* The JSON-RPC body that read_fields returns when _post succeeds.
ReadEnvelope ==
    Dict(<< <<"jsonrpc", Str(<<"2", ".", "0">>)>>, <<"id", PyInt(2)>>,
            <<"result", List(<<Dict(<< <<"id", PyInt(payload.id)>>, <<"name", partner.name>>,
                                       <<"x_sigla", partner.x_sigla>> >>)>>)>> >>)

\* webhook_odoo: exists, current = read_fields(...); the HTTPException raised for
\* `not exists` is caught by the `except Exception` around it.
ReadFields ==
    /\ pc = "read_fields"
    /\ \E a \in ReadAnswers :
         current' = IF a = "ok" THEN ReadEnvelope ELSE Dict(<<>>)
    /\ calls' = Append(calls, "read_fields")
    /\ pc' = "socrata"
    /\ UNCHANGED <<endpoint, payload, nit_digits, row, id_rm, tpl, detalle, fields, html,
                   search_title, vals, writes, partner, response, harness>>

\* row = fetch_socrata(nit_digits), except requests.HTTPError: row = None; then
\* the guard of the detail lookup and build_id_rm.
FetchSocrata ==
    /\ pc = "socrata"
    /\ calls' = Append(calls, "socrata")
    /\ \E a \in SocrataAnswers :
         IF a.kind \in {"transport_error", "bad_json"}
         THEN Fault /\ UNCHANGED <<row, id_rm>>
         ELSE LET r == IF a.kind = "http_error" THEN None ELSE SocrataPick(a.data)
                  built == IF Truthy(r) /\ Truthy(Get(r, "codigo_camara")) /\ Truthy(Get(r, "matricula"))
                           THEN build_id_rm(Get(r, "codigo_camara"), Get(r, "matricula"))
                           ELSE None
              IN  /\ row' = r
                  /\ id_rm' = built
                  /\ pc' = IF Truthy(built) THEN "detalle_api" ELSE "html_search"
                  /\ UNCHANGED response
    /\ UNCHANGED <<endpoint, payload, nit_digits, current, tpl, detalle, fields, html,
                   search_title, vals, writes, partner, harness>>

DetalleCall(i) == IF i = 1 THEN "detalle_WEB2" ELSE "detalle_WEB"

\* Faulty variant: a transport error of an endpoint is not caught.
FetchDetalleRaises ==
    /\ pc = "detalle_api"
    /\ calls' = Append(calls, DetalleCall(tpl))
    /\ \E a \in DetalleAnswers :
         LET reg == IF a.kind = "ok" THEN unwrap_rues_registro(a.js) ELSE Dict(<<>>)
         IN  IF a.kind = "transport_error"
             THEN Fault /\ UNCHANGED <<detalle, tpl>>
             ELSE /\ UNCHANGED response
                  /\ IF a.kind = "ok" /\ IsDict(reg) /\ Truthy(reg)
                     THEN detalle' = reg /\ pc' = "extract" /\ UNCHANGED tpl
                     ELSE IF tpl < NumTemplates
                          THEN tpl' = tpl + 1 /\ UNCHANGED <<detalle, pc>>
                          ELSE detalle' = Dict(<<>>) /\ pc' = "html_search" /\ UNCHANGED tpl
    /\ UNCHANGED <<endpoint, payload, nit_digits, current, row, id_rm, fields, html,
                   search_title, vals, writes, partner, harness>>

\* One turn of the loop of fetch_rues_detalle_api: GET the template `tpl`.
FetchDetalle ==
    /\ pc = "detalle_api"
    /\ calls' = Append(calls, DetalleCall(tpl))
    /\ \E a \in DetalleAnswers :
         LET reg == IF a.kind = "ok" THEN unwrap_rues_registro(a.js) ELSE Dict(<<>>)
         IN  IF a.kind = "ok" /\ IsDict(reg) /\ Truthy(reg)
             THEN detalle' = reg /\ pc' = "extract" /\ UNCHANGED tpl
             ELSE IF tpl < NumTemplates
                  THEN tpl' = tpl + 1 /\ UNCHANGED <<detalle, pc>>
                  ELSE detalle' = Dict(<<>>) /\ pc' = "html_search" /\ UNCHANGED tpl
    /\ UNCHANGED <<endpoint, payload, nit_digits, current, row, id_rm, fields, html,
                   search_title, vals, writes, partner, response, harness>>

\* `if detalle:` nombre/sigla and extras
ExtractDetalle ==
    /\ pc = "extract"
    /\ LET ns == extract_name_sigla(detalle)
           extras == extract_rues_extras(detalle)
           name_d == Or(ns.razon_social, StripOrNone(detalle, "razon_social"))
           sigla_d == Or(ns.sigla, StripOrNone(detalle, "sigla"))
       IN  IF \/ ~Truthy(ns.razon_social) /\ StripRaises(detalle, "razon_social")
              \/ ~Truthy(ns.sigla) /\ StripRaises(detalle, "sigla")
           THEN Fault /\ UNCHANGED fields
           ELSE /\ razon_social' = Or(RowGet(row, "razon_social"), name_d)
                /\ sigla' = Or(RowGet(row, "sigla"), sigla_d)
                /\ fecha_matricula' = extras.fecha_matricula
                /\ ciiu' = Or(extras.ciiu, ciiu)
                /\ representante_legal' = Or(extras.representante_legal, representante_legal)
                /\ pc' = "scan"
                /\ UNCHANGED response
    /\ UNCHANGED <<endpoint, payload, nit_digits, current, row, id_rm, tpl, detalle, html,
                   search_title, vals, writes, partner, calls, harness>>

\* "completamos por busqueda recursiva si faltan", then the choice of the HTML path
RecursiveScan ==
    /\ pc = "scan"
    /\ ciiu' = IF ~Truthy(ciiu) THEN find_first_ciiu_anywhere(detalle) ELSE ciiu
    /\ representante_legal' =
           IF ~Truthy(representante_legal) THEN find_first_representante_anywhere(detalle)
           ELSE representante_legal
    /\ pc' = IF Truthy(ciiu') /\ Truthy(representante_legal') THEN "final"
             ELSE IF WebIdOf(detalle) # None THEN "html_by_id"
             ELSE "html_search"
    /\ UNCHANGED <<endpoint, payload, nit_digits, current, row, id_rm, tpl, detalle,
                   razon_social, sigla, fecha_matricula, html, search_title, vals, writes,
                   partner, calls, response, harness>>

\* The five assignments after an HTML fetch: those of the `if detalle:` branch
\* when there is a detail document, those of the fallback branch otherwise.
Merge(h) ==
    /\ html' = h
    /\ IF Truthy(detalle)
       THEN /\ razon_social' = MergeHtml(razon_social, h, "razon_social")
            /\ sigla' = MergeHtml(sigla, h, "sigla")
       ELSE /\ razon_social' = MergeFallback(razon_social, row, h, "razon_social")
            /\ sigla' = MergeFallback(sigla, row, h, "sigla")
    /\ fecha_matricula' = MergeHtml(fecha_matricula, h, "fecha_matricula")
    /\ ciiu' = MergeHtml(ciiu, h, "ciiu")
    /\ representante_legal' = MergeHtml(representante_legal, h, "representante_legal")
    /\ pc' = "final"

\* Faulty variant: when the page of the web id gives nothing, the search is tried.
FetchHtmlByIdThenSearch ==
    /\ pc = "html_by_id"
    /\ IF ~PyIntOf(Str(Strip(PyStr(WebIdOf(detalle))))).ok
       THEN pc' = "html_search" /\ UNCHANGED <<fields, html, calls, response>>
       ELSE /\ calls' = Append(calls, "html_by_id")
            /\ \E a \in PageAnswers :
                 CASE a.kind = "transport_error" -> Fault /\ UNCHANGED <<fields, html>>
                   [] a.kind \in {"non200", "empty_body"} ->
                        pc' = "html_search" /\ UNCHANGED <<fields, html, response>>
                   [] a.kind = "ok" -> Merge(ParsedById(a.page)) /\ UNCHANGED response
    /\ UNCHANGED <<endpoint, payload, nit_digits, current, row, id_rm, tpl, detalle,
                   search_title, vals, writes, partner, harness>>

\* html_by_id = fetch_detail_from_web_id(web_id), and its merge
FetchHtmlById ==
    /\ pc = "html_by_id"
    /\ IF ~PyIntOf(Str(Strip(PyStr(WebIdOf(detalle))))).ok
       THEN Merge(Dict(<<>>)) /\ UNCHANGED <<calls, response>>
       ELSE /\ calls' = Append(calls, "html_by_id")
            /\ \E a \in PageAnswers :
                 CASE a.kind = "transport_error" -> Fault /\ UNCHANGED <<fields, html>>
                   [] a.kind \in {"non200", "empty_body"} -> Merge(Dict(<<>>)) /\ UNCHANGED response
                   [] a.kind = "ok" -> Merge(ParsedById(a.page)) /\ UNCHANGED response
    /\ UNCHANGED <<endpoint, payload, nit_digits, current, row, id_rm, tpl, detalle,
                   search_title, vals, writes, partner, harness>>

\* fetch_detail_from_html up to the detail link: GET /buscar/RM/{nit}
FetchHtmlSearch ==
    /\ pc = "html_search"
    /\ calls' = Append(calls, "html_search")
    /\ \E a \in SearchAnswers :
         CASE a.kind = "transport_error" -> Fault /\ UNCHANGED <<fields, html, search_title>>
           [] a.kind = "non200" -> Merge(Dict(<<>>)) /\ UNCHANGED <<response, search_title>>
           [] a.kind = "ok" /\ ~a.link ->
                Merge(TitleOnly(a.title)) /\ search_title' = a.title /\ UNCHANGED response
           [] a.kind = "ok" /\ a.link ->
                /\ search_title' = a.title
                /\ pc' = "html_detail"
                /\ UNCHANGED <<fields, html, response>>
    /\ UNCHANGED <<endpoint, payload, nit_digits, current, row, id_rm, tpl, detalle,
                   vals, writes, partner, harness>>

\* fetch_detail_from_html from the detail link on: GET the detail page
FetchHtmlDetail ==
    /\ pc = "html_detail"
    /\ calls' = Append(calls, "html_detail")
    /\ \E a \in {x \in PageAnswers : x.kind # "empty_body"} :
         CASE a.kind = "transport_error" -> Fault /\ UNCHANGED <<fields, html>>
           [] a.kind = "non200" -> Merge(TitleOnly(search_title)) /\ UNCHANGED response
           [] a.kind = "ok" -> Merge(ParsedBySearch(search_title, a.page)) /\ UNCHANGED response
    /\ UNCHANGED <<endpoint, payload, nit_digits, current, row, id_rm, tpl, detalle,
                   search_title, vals, writes, partner, harness>>

\* The body of a 200 response of /webhook/odoo (of /webhook: its last five fields).
OdooOut(ok, updated, vals_, writes_) ==
    [status |-> 200, ok |-> ok, updated |-> updated, vals |-> vals_, writes |-> writes_,
     razon_social |-> razon_social, sigla |-> sigla, fecha_matricula |-> fecha_matricula,
     ciiu |-> ciiu, representante_legal |-> representante_legal]

WebhookOut ==
    [status |-> 200, razon_social |-> razon_social, sigla |-> sigla,
     fecha_matricula |-> fecha_matricula, ciiu |-> ciiu,
     representante_legal |-> representante_legal]

NoData == ~(Truthy(razon_social) \/ Truthy(sigla) \/ Truthy(fecha_matricula) \/ Truthy(ciiu) \/ Truthy(representante_legal))

\* webhook_odoo: current_name, current_sigla and vals
CurrentOf(cur) ==
    LET c == IF IsList(cur) THEN (IF Truthy(cur) THEN cur.items[1] ELSE Dict(<<>>)) ELSE cur
    IN  Or(c, Dict(<<>>))

ValsFor(cur, rs, sg) ==
    LET current_name == Or(Get(CurrentOf(cur), "name"), Str(<<>>))
        current_sigla == Or(Get(CurrentOf(cur), "x_sigla"), Str(<<>>))
    IN  (IF Truthy(rs) /\ rs # current_name THEN << <<"name", rs>> >> ELSE <<>>)
        \o (IF Truthy(sg) /\ sg # current_sigla THEN << <<"x_sigla", sg>> >> ELSE <<>>)

ValsOf(cur) == ValsFor(cur, razon_social, sigla)

\* The 404 of both handlers, the response of /webhook, and vals of /webhook/odoo
Finish ==
    /\ pc = "final"
    /\ IF NoData THEN Raise(404, "no_data") /\ UNCHANGED vals
       ELSE IF endpoint = "webhook" THEN response' = WebhookOut /\ pc' = "done" /\ UNCHANGED vals
       ELSE /\ vals' = ValsOf(current)
            /\ IF vals' = <<>>
               THEN response' = OdooOut(TRUE, FALSE, <<>>, <<>>) /\ pc' = "done"
               ELSE pc' = "write" /\ UNCHANGED response
    /\ UNCHANGED <<endpoint, payload, nit_digits, current, row, id_rm, tpl, detalle, fields,
                   html, search_title, writes, partner, calls, harness>>

\* webhook_odoo: one post_write; the second is issued only if the first was ok
PostWrite ==
    /\ pc = "write"
    /\ calls' = Append(calls, "post_write")
    /\ \E a \in WriteAnswers :
         LET i == Len(writes) + 1
             ok == a = "ok"
             done == (i = 1 /\ ~ok) \/ i = Len(vals)
         IN  /\ writes' = Append(writes, [field |-> vals[i][1], value |-> vals[i][2], ok |-> ok, resp |-> a])
             /\ partner' = IF ok THEN [partner EXCEPT ![vals[i][1]] = vals[i][2]] ELSE partner
             /\ IF done
                THEN /\ response' = OdooOut(\A j \in 1..Len(writes') : writes'[j].ok, TRUE, vals, writes')
                     /\ pc' = "done"
                ELSE UNCHANGED <<pc, response>>
    /\ UNCHANGED <<endpoint, payload, nit_digits, current, row, id_rm, tpl, detalle, fields,
                   html, search_title, vals, harness>>

Next ==
    \/ Validate
    \/ ReadFields
    \/ FetchSocrata
    \/ FetchDetalle
    \/ ExtractDetalle
    \/ RecursiveScan
    \/ FetchHtmlById
    \/ FetchHtmlSearch
    \/ FetchHtmlDetail
    \/ Finish
    \/ PostWrite

Spec == Init /\ [][Next]_vars

(***************************************************************************)
(* Claims about one request.                                               *)
(***************************************************************************)
Last(xs) == xs[Len(xs)]
Called(c) == \E i \in 1..Len(calls) : calls[i] = c
Answered == pc = "done" /\ response.status \in {200, 404}

\* What each source gave for the field k: the index row, the detail document
\* (name_d / sigla_d of the handlers) and the HTML fetch of the request.
FromIndex(k) == RowGet(row, k)
FromDetail(k) ==
    IF ~Truthy(detalle) THEN None
    ELSE Or(extract_name_sigla(detalle)[k], StripOrNone(detalle, k))
FromHtml(k) == IF html = NotFetched THEN None ELSE Get(html, k)
FirstOfSources(k) == Or(Or(FromIndex(k), FromDetail(k)), FromHtml(k))

\* C1: for the legal name and for the trade name, the request ends with the
\* first non-empty value in the order index row > detail > html, whatever the
\* other sources returned (also when the detail document is empty and the
\* HTML fetch returns nothing).
C1_MergePrecedence ==
    Answered =>
        /\ Truthy(FirstOfSources("razon_social")) =>
               response.status = 200 /\ razon_social = FirstOfSources("razon_social")
        /\ Truthy(FirstOfSources("sigla")) =>
               response.status = 200 /\ sigla = FirstOfSources("sigla")

\* C2: once one of the five output fields holds a non-empty value, no later
\* step of the request changes it.
C2_FilledFieldsKept ==
    [][ /\ Truthy(razon_social) => razon_social' = razon_social
        /\ Truthy(sigla) => sigla' = sigla
        /\ Truthy(fecha_matricula) => fecha_matricula' = fecha_matricula
        /\ Truthy(ciiu) => ciiu' = ciiu
        /\ Truthy(representante_legal) => representante_legal' = representante_legal ]_vars

\* C2 witness: the request ended after an HTML page offered other non-empty
\* values for fields that the index row and the detail document had filled.
C2_Witness ==
    /\ pc = "done"
    /\ html # NotFetched
    /\ Truthy(Get(html, "razon_social")) /\ Truthy(razon_social)
    /\ Get(html, "razon_social") # razon_social
    /\ Truthy(Get(html, "ciiu")) /\ Truthy(ciiu)
    /\ Get(html, "ciiu") # ciiu

\* The identifier of the request body normalizes to the empty string.
NormalizesToEmpty ==
    LET raw_nit == extract_nit_from_payload(payload.nit, payload.vat)
    IN  only_digits(IF Truthy(raw_nit) THEN raw_nit.s ELSE <<>>) = <<>>

\* C4: a request whose identifier normalizes to the empty string is answered
\* 400 and no external call is ever made for it.
C4_InvalidNitRejectedFirst ==
    NormalizesToEmpty =>
        /\ calls = <<>>
        /\ pc \in {"start", "done"}
        /\ pc = "done" => response.status = 400

\* C4 witness: nit "abc" without vat, answered 400 with no call made.
C4_Witness ==
    /\ payload.nit = Str(<<"a", "b", "c">>) /\ payload.vat = None
    /\ pc = "done" /\ response.status = 400 /\ calls = <<>>

\* C5: when every source returned nothing or was unavailable, so that the
\* five output fields are all null, the request ends 404 and no post_write
\* is attempted.
C5_NoDataGives404 ==
    (pc = "done" /\ ~NormalizesToEmpty /\ NoData) =>
        response.status = 404 /\ ~Called("post_write")

\* C6: the index lookup never raises to the handler: whatever the index
\* endpoint answered (transport error, 4xx/5xx, undecodable body), the
\* request goes on to the detail lookup or the HTML search.
C6_IndexNeverRaises ==
    (calls # <<>> /\ Last(calls) = "socrata") =>
        pc \in {"detalle_api", "html_search"} /\ response = NoResponse

HtmlCalls == {"html_search", "html_detail", "html_by_id"}

\* C7: a failed HTML page fetch (status other than 200, or transport error)
\* never aborts the request: no request ends in a fault right after an
\* HTML fetch.
C7_HtmlNeverAborts ==
    (calls # <<>> /\ Last(calls) \in HtmlCalls) => response.status # 500

NullOrNonEmpty(v) == v = None \/ (IsStr(v) /\ v.s # <<>>)

\* C8: in a successful response each of the five output fields is null or a
\* non-empty string, never the empty string.
C8_NoEmptyStrings ==
    (pc = "done" /\ response.status = 200) =>
        /\ NullOrNonEmpty(response.razon_social)
        /\ NullOrNonEmpty(response.sigla)
        /\ NullOrNonEmpty(response.fecha_matricula)
        /\ NullOrNonEmpty(response.ciiu)
        /\ NullOrNonEmpty(response.representante_legal)

\* C9: the activity code of a successful response is null or exactly four
\* digits, whichever path produced it.
C9_CiiuFourDigits ==
    (pc = "done" /\ response.status = 200) =>
        \/ response.ciiu = None
        \/ IsStr(response.ciiu) /\ Len(response.ciiu.s) = 4 /\ AllDigits(response.ciiu.s)

\* The index lookup has answered and the handler holds its row (or None).
IndexAnswered == Called("socrata") /\ ~(pc = "done" /\ Last(calls) = "socrata")

\* The row is missing, lacks chamber code or registration sequence, or these
\* do not make a composite record id.
NoRecordId ==
    \/ ~Truthy(row)
    \/ ~Truthy(Get(row, "codigo_camara"))
    \/ ~Truthy(Get(row, "matricula"))
    \/ ~PyIntOf(Get(row, "codigo_camara")).ok
    \/ ~PyIntOf(Get(row, "matricula")).ok

\* The detail resolver has tried its last endpoint and returned an empty document.
ResolverEmpty == Called(DetalleCall(NumTemplates)) /\ ~Truthy(detalle)

\* The call that follows the i-th call is the HTML search (or is about to be).
ThenHtmlSearch(i) ==
    IF Len(calls) > i THEN calls[i + 1] = "html_search" ELSE pc = "html_search"

\* C10: without a row, a chamber code, a registration sequence or a record
\* id, no detail endpoint is ever called and the call after the index lookup
\* is the HTML search; after a detail resolver that returned an empty
\* document the next call is the HTML search too, and no extraction or
\* web-id fetch takes place.
C10_NoRowSkipsDetail ==
    /\ (IndexAnswered /\ NoRecordId) =>
           /\ \A i \in 1..NumTemplates : ~Called(DetalleCall(i))
           /\ ThenHtmlSearch(CHOOSE i \in 1..Len(calls) : calls[i] = "socrata")
    /\ ResolverEmpty =>
           /\ ThenHtmlSearch(CHOOSE i \in 1..Len(calls) : calls[i] = DetalleCall(NumTemplates))
           /\ ~Called("html_by_id")
    /\ (IndexAnswered /\ (NoRecordId \/ ResolverEmpty)) => pc \in {"html_search", "html_detail", "final", "write", "done"}

\* C10 witness: a row with a name but an unusable registration sequence; the
\* request ended 200 on the HTML search alone.
C10_Witness ==
    /\ pc = "done" /\ response.status = 200
    /\ Truthy(row) /\ Truthy(Get(row, "matricula")) /\ ~PyIntOf(Get(row, "matricula")).ok
    /\ Called("html_search")
    /\ \A i \in 1..NumTemplates : ~Called(DetalleCall(i))

\* The handler is past the extraction and the recursive scans of a non-empty
\* detail document, and past the choice of the HTML path.
PastScan ==
    /\ Truthy(detalle)
    /\ pc \in {"html_by_id", "html_search", "html_detail", "final", "write", "done"}
    /\ ~(pc = "done" /\ response.status = 500 /\ Last(calls) \notin HtmlCalls)

\* Activity code and representative as they stand after structured
\* extraction and the recursive scans of the detail document.
CiiuAfterScan == Or(extract_rues_extras(detalle).ciiu, find_first_ciiu_anywhere(detalle))
RepAfterScan ==
    Or(extract_rues_extras(detalle).representante_legal, find_first_representante_anywhere(detalle))
StillMissing == ~(Truthy(CiiuAfterScan) /\ Truthy(RepAfterScan))

\* The detail document carries a web id under id, id_detalle or id_detalle_web.
CarriesWebId == \E k \in {"id", "id_detalle", "id_detalle_web"} : Truthy(Get(detalle, k))

\* The request is past its HTML step without a fault.
PastHtml == pc \in {"final", "write"} \/ (pc = "done" /\ response.status # 500)

RecordMissing == Called("read_fields") /\ current = Dict(<<>>)

\* C12: when read_fields reports that the record does not exist, the request
\* ends 404 partner_not_found; no source lookup and no CRM write follows.
C12_RecordNotFound ==
    RecordMissing =>
        /\ calls = <<"read_fields">>
        /\ pc = "done"
        /\ response.status = 404
        /\ response.detail = "partner_not_found"

\* Some post_write of the request returned ok = False.
WriteFailed == \E j \in 1..Len(writes) : ~writes[j].ok

\* C13: when a post_write returned ok = False, the request ends as a failure
\* that carries the error payload of the failed write; it is never answered
\* as a successful update (HTTP 200 with updated = true).
C13_WriteFailureSurfaced ==
    (pc = "done" /\ WriteFailed) =>
        /\ ~(response.status = 200 /\ response.updated)
        /\ \E j \in 1..Len(response.writes) :
               ~response.writes[j].ok /\ response.writes[j].resp = "error"

\* The calls to the detail endpoints, in the order they were made.
DetalleCalls == SelectSeq(calls, LAMBDA c : \E i \in 1..NumTemplates : c = DetalleCall(i))

\* C17: the detail endpoints are called in their fixed order; a call that
\* gives a non-empty document ends the resolver (no later endpoint is
\* called); any other answer moves on to the next endpoint, and after the
\* last one the resolver returns an empty document; no answer of an
\* endpoint ends the request.
C17_DetailResolver ==
    /\ [](DetalleCalls = [i \in 1..Len(DetalleCalls) |-> DetalleCall(i)])
    /\ [][ /\ pc = "detalle_api" =>
               /\ response' = NoResponse
               /\ IF Truthy(detalle') THEN pc' = "extract"
                  ELSE IF Len(DetalleCalls') < NumTemplates THEN pc' = "detalle_api"
                  ELSE pc' = "html_search"
           /\ Truthy(detalle) => (DetalleCalls' = DetalleCalls /\ detalle' = detalle) ]_vars

\* C17 witness: the first endpoint failed, the second gave a document.
C17_Witness ==
    /\ DetalleCalls = <<DetalleCall(1), DetalleCall(2)>>
    /\ Truthy(detalle)
    /\ pc = "extract"

\* C18: extraction from a detail document, and the handler code around it,
\* never raise: a value of the wrong type (a list under razon_social, say)
\* counts as an absent field, and the other fields are still extracted.
C18_ExtractionNeverRaises ==
    [][ pc = "extract" =>
            /\ response' = NoResponse
            /\ pc' = "scan"
            /\ sigla' = Or(RowGet(row, "sigla"), FromDetail("sigla"))
            /\ fecha_matricula' = extract_rues_extras(detalle).fecha_matricula
            /\ ciiu' = extract_rues_extras(detalle).ciiu ]_vars

\* How many times the call c was made.
TimesCalled(c) == Cardinality({i \in 1..Len(calls) : calls[i] = c})

\* The search-then-detail flow was entered.
SearchFlow == Called("html_search") \/ Called("html_detail") \/ pc \in {"html_search", "html_detail"}

\* The path of the web id was taken: the detail document is incomplete
\* after the scans and carries a web id.
WebIdPath == PastScan /\ StillMissing /\ CarriesWebId

\* C24: one request runs at most one HTML path, the page of the web id or
\* the search flow, and each at most once; when the detail document carries
\* a web id and its page gave nothing (id not a number, status other than
\* 200, empty page), the search is not tried and the activity code and the
\* representative stay as the scans left them.
C24_OneHtmlPath ==
    /\ ~(Called("html_by_id") /\ SearchFlow)
    /\ \A c \in HtmlCalls : TimesCalled(c) <= 1
    /\ WebIdPath => ~SearchFlow
    /\ (WebIdPath /\ PastHtml /\ html = Dict(<<>>)) =>
           /\ ciiu = CiiuAfterScan
           /\ representante_legal = RepAfterScan
           /\ pc = "done" => (response.ciiu = CiiuAfterScan /\ response.representante_legal = RepAfterScan)

\* C24 witness: the detail document carries the web id "55" and neither an
\* activity code nor a representative; the page of the web id was fetched
\* and gave nothing; the request ended 200 with both fields null and no
\* search.
C24_Witness ==
    /\ pc = "done" /\ response.status = 200
    /\ Get(detalle, "id_detalle") = Str(<<"5", "5">>)
    /\ Called("html_by_id")
    /\ html = Dict(<<>>)
    /\ ~Called("html_search")
    /\ response.ciiu = None /\ response.representante_legal = None

\* The record as read_fields received it: the first element of the result
\* list of the answer, the empty mapping when the read failed.
RecordRead ==
    LET res == Get(current, "result")
    IN  IF IsList(res) /\ res.items # <<>> /\ IsDict(res.items[1]) THEN res.items[1] ELSE Dict(<<>>)

\* The value of a field of the record as read ("" for a missing or false one).
ReadValue(f) == Or(Get(RecordRead, f), Str(<<>>))

\* The enriched value that goes with a field of the record.
EnrichedValue(f) == IF f = "name" THEN razon_social ELSE sigla

\* The fields whose enriched value is not empty and differs from the value read.
FieldsToWrite == {f \in {"name", "x_sigla"} : Truthy(EnrichedValue(f)) /\ EnrichedValue(f) # ReadValue(f)}

\* C25: a request to /webhook/odoo that ends 200 wrote at most the fields
\* name and sigla, each with its enriched value and only if that value is
\* not empty and differs from the value read from the record; with no such
\* field no write call is issued and updated is false; a second write is
\* attempted only after a first one that reported ok; updated is true only
\* if a write succeeded.
C25_WriteFrame ==
    (endpoint = "webhook_odoo" /\ pc = "done" /\ response.status = 200) =>
        /\ \A j \in 1..Len(writes) :
               /\ writes[j].field \in FieldsToWrite
               /\ writes[j].value = EnrichedValue(writes[j].field)
        /\ FieldsToWrite = {} => (~Called("post_write") /\ ~response.updated)
        /\ Len(writes) <= 2
        /\ Len(writes) = 2 => (writes[1].ok /\ writes[1].field # writes[2].field)
        /\ response.updated => \E j \in 1..Len(writes) : writes[j].ok

(***************************************************************************)
(* Harness of the identifier normalizer: nit_base_sin_dv applied to every  *)
(* string of at most MaxNitLen characters, and then to its own result.     *)
(***************************************************************************)
NitChars == {"1", "2", "-"}

RECURSIVE StringsUpTo(_, _)
StringsUpTo(chars, n) ==
    IF n = 0 THEN {<<>>}
    ELSE LET shorter == StringsUpTo(chars, n - 1)
         IN  shorter \cup {Append(s, c) : s \in {x \in shorter : Len(x) = n - 1}, c \in chars}

InitNit ==
    /\ fn_in \in StringsUpTo(NitChars, MaxNitLen)
    /\ fn_out = <<>>
    /\ endpoint = "webhook"
    /\ payload = [nit |-> None, vat |-> None, id |-> 0]
    /\ partner = [name |-> <<>>, x_sigla |-> <<>>]
    /\ Locals0
    /\ reqs = <<>>
    /\ wlog = <<>>

ApplyNit ==
    /\ Len(fn_out) < 2
    /\ fn_out' = Append(fn_out, nit_base_sin_dv(IF fn_out = <<>> THEN fn_in ELSE fn_out[Len(fn_out)]))
    /\ UNCHANGED <<fn_in, orch_vars, reqs, wlog>>

NextNit == ApplyNit

SpecNit == InitNit /\ [][NextNit]_vars

\* C3 (as stated): normalize(normalize(x)) = normalize(x) for every input x,
\* inputs with 10 or more digits included.
C3_IdempotentAll == Len(fn_out) = 2 => fn_out[2] = fn_out[1]

\* C3 (amended): for every input x with at most 9 digits,
\* normalize(normalize(x)) = normalize(x); an input with 10 or more digits
\* loses one further digit on the second application.
C3_IdempotentUpTo9 ==
    Len(fn_out) = 2 =>
        IF Len(only_digits(fn_in)) <= 9
        THEN fn_out[2] = fn_out[1]
        ELSE fn_out[2] = SubSeq(fn_out[1], 1, Len(fn_out[1]) - 1)

\* C3 witness: a 9-digit input normalized twice (the check digit was dropped
\* by the first application and nothing by the second).
C3_Witness ==
    /\ Len(fn_out) = 2
    /\ Len(only_digits(fn_in)) = 9
    /\ Len(fn_out[1]) = 8
    /\ fn_out[2] = fn_out[1]

\* The digits of the input, in their order.
RECURSIVE DigitRun(_)
DigitRun(s) ==
    IF s = <<>> THEN <<>>
    ELSE (IF Head(s) \in Digits THEN <<Head(s)>> ELSE <<>>) \o DigitRun(Tail(s))

\* C15: for a digit run of length >= 9 the normalized identifier is the run
\* without its last digit (one shorter, order kept); for a shorter run it
\* is the run itself; an input without digits gives the empty string.
C15_BaseLength ==
    Len(fn_out) >= 1 =>
        LET d == DigitRun(fn_in)
            n == Len(d)
        IN  /\ n >= 9 => (Len(fn_out[1]) = n - 1 /\ \A i \in 1..(n - 1) : fn_out[1][i] = d[i])
            /\ n < 9 => fn_out[1] = d
            /\ n = 0 => fn_out[1] = <<>>

\* C15 witness: ten digits with distinct first and last digit, normalized
\* to the first nine.
C15_Witness ==
    /\ Len(fn_out) >= 1
    /\ Len(DigitRun(fn_in)) = 10
    /\ fn_in[1] # fn_in[10]
    /\ Len(fn_out[1]) = 9
    /\ fn_out[1][1] = fn_in[1]

(***************************************************************************)
(* Harness of the row selection of fetch_socrata: SocrataPick applied to   *)
(* every result of at most MaxRows rows (the query asks for $limit 5).     *)
(***************************************************************************)
RowTie == Dict(<< <<"razon_social", sC>>, <<"codigo_camara", s7>>, <<"matricula", s123>> >>)

IndexRows == {RowFull, RowOld, RowTie, RowNoCodes, RowBadMatricula}

RECURSIVE RowsUpTo(_)
RowsUpTo(n) ==
    IF n = 0 THEN {<<>>}
    ELSE LET shorter == RowsUpTo(n - 1)
         IN  shorter \cup {Append(d, r) : d \in {x \in shorter : Len(x) = n - 1}, r \in IndexRows}

InitPick ==
    /\ fn_in \in RowsUpTo(MaxRows)
    /\ fn_out = <<>>
    /\ endpoint = "webhook"
    /\ payload = [nit |-> None, vat |-> None, id |-> 0]
    /\ partner = [name |-> <<>>, x_sigla |-> <<>>]
    /\ Locals0
    /\ reqs = <<>>
    /\ wlog = <<>>

ApplyPick ==
    /\ fn_out = <<>>
    /\ fn_out' = <<SocrataPick(fn_in)>>
    /\ UNCHANGED <<fn_in, orch_vars, reqs, wlog>>

NextPick == ApplyPick

SpecPick == InitPick /\ [][NextPick]_vars

\* The registration sequence of a row as an integer, 0 when it is missing
\* or cannot be parsed.
MatriculaOrZero(x) ==
    IF Truthy(Get(x, "matricula")) /\ PyIntOf(Get(x, "matricula")).ok
    THEN PyIntOf(Get(x, "matricula")).n
    ELSE 0

\* The first row, in source order, whose registration sequence is the maximum.
FirstMax(data) ==
    data[CHOOSE i \in 1..Len(data) :
            /\ \A j \in 1..Len(data) : MatriculaOrZero(data[j]) <= MatriculaOrZero(data[i])
            /\ \A j \in 1..(i - 1) : MatriculaOrZero(data[j]) < MatriculaOrZero(data[i])]

\* C16: the index lookup returns the row with the maximum registration
\* sequence, an unparsable or missing one counting as 0, the first in source
\* order among equals; also when some row has a non-numeric sequence.
C16_MaxMatricula ==
    (Len(fn_out) = 1 /\ fn_in # <<>>) => fn_out[1] = FirstMax(fn_in)

(***************************************************************************)
(* Harness of the structured representative extraction:                    *)
(* extract_rues_extras applied to a detail document whose                  *)
(* representantesLegales is any list of at most MaxPersons person entries. *)
(***************************************************************************)
sANA == Str(<<"A", "N", "A">>)
sEVA == Str(<<"E", "V", "A">>)
sPEDRO == Str(<<"P", "E", "D", "R", "O">>)
sRepLegal == Str(<<"R", "e", "p", "r", "e", "s", "e", "n", "t", "a", "n", "t", "e", " ", "L", "e", "g", "a", "l">>)
sGerente == Str(<<"G", "e", "r", "e", "n", "t", "e">>)

Persons ==
    { Dict(<< <<"nombre", sANA>>, <<"rol", sRepLegal>> >>),
      Dict(<< <<"nombreCompleto", sEVA>>, <<"cargo", sRepLegal>> >>),
      Dict(<< <<"nombre", sPEDRO>>, <<"rol", sGerente>> >>),
      Dict(<< <<"nombre", sPEDRO>> >>),
      Dict(<< <<"rol", sRepLegal>> >>) }

RECURSIVE PersonsUpTo(_)
PersonsUpTo(n) ==
    IF n = 0 THEN {<<>>}
    ELSE LET shorter == PersonsUpTo(n - 1)
         IN  shorter \cup {Append(d, r) : d \in {x \in shorter : Len(x) = n - 1}, r \in Persons}

InitRep ==
    /\ fn_in \in PersonsUpTo(MaxPersons)
    /\ fn_out = <<>>
    /\ endpoint = "webhook"
    /\ payload = [nit |-> None, vat |-> None, id |-> 0]
    /\ partner = [name |-> <<>>, x_sigla |-> <<>>]
    /\ Locals0
    /\ reqs = <<>>
    /\ wlog = <<>>

ApplyRep ==
    /\ fn_out = <<>>
    /\ fn_out' = <<extract_rues_extras(Dict(<< <<"representantesLegales", List(fn_in)>> >>)).representante_legal>>
    /\ UNCHANGED <<fn_in, orch_vars, reqs, wlog>>

NextRep == ApplyRep

SpecRep == InitRep /\ [][NextRep]_vars

HasRepRole(p) == IsRepresentante(PersonRol(p))

\* The names of the entries of ps, in order.
NamesOf(ps) ==
    LET named == SelectSeq(ps, LAMBDA p : Truthy(PersonNombre(p)))
    IN  [i \in 1..Len(named) |-> PersonNombre(named[i]).s]

\* The names of the entries of ps with a representante role, in order.
RepNamesOf(ps) == NamesOf(SelectSeq(ps, HasRepRole))

\* C19: when some entry has a role containing "representante", the result
\* is made of the names of such entries only; without any such entry it is
\* the name of the first entry seen.  At most two names, no duplicates,
\* first-seen order, joined by ", ".
C19_RepresentantePreferred ==
    Len(fn_out) = 1 =>
        LET reps == Dedup(RepNamesOf(fn_in))
            all == NamesOf(fn_in)
        IN  IF reps # <<>>
            THEN fn_out[1] = Str(JoinTwo(reps))
            ELSE IF all # <<>> THEN fn_out[1] = Str(all[1])
            ELSE fn_out[1] = None

(***************************************************************************)
(* Harness of the activity code of a detail document: the structured       *)
(* extraction and the recursive scan as the handlers chain them, applied   *)
(* to every document of at most MaxKeys of the entries below.              *)
(***************************************************************************)
CiiuEntries ==
    { <<"nota", Str(<<"t", "e", "l", " ", "1", "2", "3", "4">>)>>,
      <<"actividadesEconomicas", List(<<Dict(<< <<"codigoCIIU", Str(<<"4", "7", "1", "1">>)>> >>)>>)>>,
      <<"info", Dict(<< <<"actividades",
            Dict(<< <<"foo", Str(<<"c", "o", "d", "i", "g", "o", " ", "9", "9", "9", "9", " ", "b", "a", "r">>)>> >>)>> >>)>>,
      <<"ciiu", Str(<<"s", "i", "n", " ", "c", "o", "d", "i", "g", "o">>)>>,
      <<"sede", List(<<Dict(<< <<"anio", Str(<<"2", "0", "2", "0">>)>> >>)>>)>>,
      <<"notas", List(<<Str(<<"r", "e", "f", " ", "5", "6", "7", "8">>)>>)>> }

\* The sequences of at most n distinct entries (a dict has each key once).
RECURSIVE EntriesUpTo(_)
EntriesUpTo(n) ==
    IF n = 0 THEN {<<>>}
    ELSE LET shorter == EntriesUpTo(n - 1)
         IN  shorter \cup {Append(d, e) : d \in {x \in shorter : Len(x) = n - 1}, e \in CiiuEntries}

NoRepeat(d) == \A i, j \in 1..Len(d) : i # j => d[i] # d[j]

InitCiiu ==
    /\ fn_in \in {Dict(d) : d \in {x \in EntriesUpTo(MaxKeys) : NoRepeat(x)}}
    /\ fn_out = <<>>
    /\ endpoint = "webhook"
    /\ payload = [nit |-> None, vat |-> None, id |-> 0]
    /\ partner = [name |-> <<>>, x_sigla |-> <<>>]
    /\ Locals0
    /\ reqs = <<>>
    /\ wlog = <<>>

\* ciiu = extras.get("ciiu") or ciiu; if not ciiu: ciiu = find_first_ciiu_anywhere(detalle)
CiiuOfDetalle(detalle_) ==
    LET c == Or(extract_rues_extras(detalle_).ciiu, None)
    IN  IF ~Truthy(c) THEN find_first_ciiu_anywhere(detalle_) ELSE c

ApplyCiiu ==
    /\ fn_out = <<>>
    /\ fn_out' = <<CiiuOfDetalle(fn_in)>>
    /\ UNCHANGED <<fn_in, orch_vars, reqs, wlog>>

NextCiiu == ApplyCiiu

SpecCiiu == InitCiiu /\ [][NextCiiu]_vars

\* The key matches the activity/ciiu pattern.
IsCiiuKey(k) == k \in {"ciiu", "codigoCIIU", "codigoCiiu", "actividades", "actividadesEconomicas", "actividadEconomica"}

\* The first run of four digits in a string value (the value of some key)
\* inside v, in document order.
RECURSIVE FirstRunIn(_)
RECURSIVE FirstRunInSeq(_)
FirstRunIn(v) ==
    IF IsDict(v)
    THEN FirstRunInSeq([i \in 1..Len(v.items) |->
             IF IsStr(v.items[i][2]) THEN [hit |-> _CIIU_VAL_RE(v.items[i][2].s)]
             ELSE [sub |-> v.items[i][2]]])
    ELSE IF IsList(v) THEN FirstRunInSeq([i \in 1..Len(v.items) |-> [sub |-> v.items[i]]])
    ELSE None
FirstRunInSeq(xs) ==
    IF xs = <<>> THEN None
    ELSE LET got == IF "hit" \in DOMAIN Head(xs) THEN Head(xs).hit ELSE FirstRunIn(Head(xs).sub)
         IN  IF got # None THEN got ELSE FirstRunInSeq(Tail(xs))

\* The first run of four digits in the value v of a matching key: v itself,
\* the string values inside it, or the strings of the list it is.
RECURSIVE FirstRunOfItems(_)
FirstRunOfItems(xs) ==
    IF xs = <<>> THEN None
    ELSE LET got == IF IsStr(Head(xs)) THEN _CIIU_VAL_RE(Head(xs).s)
                    ELSE IF IsDict(Head(xs)) THEN FirstRunIn(Head(xs))
                    ELSE None
         IN  IF got # None THEN got ELSE FirstRunOfItems(Tail(xs))

FirstRunOfValue(v) ==
    IF IsStr(v) THEN _CIIU_VAL_RE(v.s)
    ELSE IF IsDict(v) THEN FirstRunIn(v)
    ELSE IF IsList(v) THEN FirstRunOfItems(v.items)
    ELSE None

\* The first run of four digits under a key that matches the pattern,
\* anywhere in v, in document order.
RECURSIVE FirstRunUnderKey(_)
RECURSIVE FirstRunUnderKeySeq(_)
FirstRunUnderKey(v) ==
    IF IsDict(v)
    THEN FirstRunUnderKeySeq([i \in 1..Len(v.items) |->
             IF IsCiiuKey(v.items[i][1]) /\ FirstRunOfValue(v.items[i][2]) # None
             THEN [hit |-> FirstRunOfValue(v.items[i][2])]
             ELSE [sub |-> v.items[i][2]]])
    ELSE IF IsList(v) THEN FirstRunUnderKeySeq([i \in 1..Len(v.items) |-> [sub |-> v.items[i]]])
    ELSE None
FirstRunUnderKeySeq(xs) ==
    IF xs = <<>> THEN None
    ELSE LET got == IF "hit" \in DOMAIN Head(xs) THEN Head(xs).hit ELSE FirstRunUnderKey(Head(xs).sub)
         IN  IF got # None THEN got ELSE FirstRunUnderKeySeq(Tail(xs))

DateLiterals ==
    { <<"2", "0", "2", "3", "-", "0", "5", "-", "1", "0", "T", "0", "0", ":", "0", "0", ":", "0", "0", "Z">>,
      <<"/", "D", "a", "t", "e", "(", "1", "6", "8", "3", "6", "7", "6", "8", "0", "0", "0", "0", "0", ")", "/">>,
      <<"1", "6", "8", "3", "6", "7", "6", "8", "0", "0">>,
      <<"1", "0", "/", "0", "5", "/", "2", "0", "2", "3">>,
      <<"n", "o", "t", "-", "a", "-", "d", "a", "t", "e">>,
      <<" ", "1", "0", "/", "0", "5", "/", "2", "0", "2", "3", " ">>,
      <<"2", "0", "2", "3", "-", "0", "5", "-", "1", "0", " ", "1", "0", ":", "3", "0">>,
      <<"2", "0", "2", "3", "-", "0", "5", "-", "1", "0", "T", "2", "3", ":", "0", "0", ":", "0", "0", "-", "0", "5", ":", "0", "0">>,
      <<"2", "0", "2", "3", "-", "0", "5", "-", "1", "0", "T", "2", "5", ":", "0", "0", ":", "0", "0", "Z">>,
      <<"/", "D", "a", "t", "e", "(", "a", "b", "c", ")", "/">>,
      <<"/", "D", "a", "t", "e", "(", "9", "9", "9", "9", "9", "9", "9", "9", "9", "9", "9", "9", "9", "9", "9", "9", "9", "9", "9", "9", ")", "/">>,
      <<"/", "D", "a", "t", "e", "(", "0", ")", "/">>,
      <<"1", "6", "8", "3", "6", "7", "6", "8", "0", "0", "0", "0", "0">>,
      <<"1", "0", "0", "0", "0", "0", "0", "0", "0", "0", "0">>,
      <<"1", "0", "0", "0", "0", "0", "0", "0", "0", "0", "1">>,
      <<"0">>,
      <<"9", "9", "9", "9", "9", "9", "9", "9", "9", "9", "9", "9", "9", "9", "9", "9", "9">>,
      <<"1", "0", "-", "0", "5", "-", "2", "0", "2", "3">>,
      <<"2", "0", "2", "3", "/", "0", "5", "/", "1", "0">> }

DayTexts ==
    { <<"1">>, <<"1", "0">>, <<"2", "9">>, <<"3", "0">>, <<"3", "1">>, <<"3", "2">> }
MonthTexts ==
    { <<"2">>, <<"0", "2">>, <<"0", "5">>, <<"1", "2">>, <<"1", "3">> }
YearTexts ==
    { <<"2", "0", "2", "3">>, <<"2", "0", "2", "4">>, <<"2", "3">> }

IsoYears ==
    { <<"2", "0", "2", "3">>, <<"2", "0", "2", "4">> }
IsoMonths ==
    { <<"0", "2">>, <<"0", "5">>, <<"1", "3">> }
IsoDays ==
    { <<"1", "0">>, <<"2", "9">>, <<"3", "0">>, <<"3", "1">> }

DateInputs ==
    {Str(x) : x \in DateLiterals}
    \cup {Str(d \o <<"/">> \o m \o <<"/">> \o y) : d \in DayTexts, m \in MonthTexts, y \in YearTexts}
    \cup {Str(y \o <<"-">> \o m \o <<"-">> \o d) : y \in IsoYears, m \in IsoMonths, d \in IsoDays}
    \cup {None, Str(<<>>), PyInt(0), PyInt(1683676800), PyBool(TRUE)}

InitDate ==
    /\ fn_in \in DateInputs
    /\ fn_out = <<>>
    /\ endpoint = "webhook"
    /\ payload = [nit |-> None, vat |-> None, id |-> 0]
    /\ partner = [name |-> <<>>, x_sigla |-> <<>>]
    /\ Locals0
    /\ reqs = <<>>
    /\ wlog = <<>>

ApplyDate ==
    /\ fn_out = <<>>
    /\ fn_out' = <<_to_iso_date(fn_in)>>
    /\ UNCHANGED <<fn_in, orch_vars, reqs, wlog>>

NextDate == ApplyDate

SpecDate == InitDate /\ [][NextDate]_vars

\* A calendar date written YYYY-MM-DD.
IsIsoDateText(v) ==
    /\ IsStr(v) /\ Len(v.s) = 10
    /\ \A i \in {1, 2, 3, 4, 6, 7, 9, 10} : v.s[i] \in Digits
    /\ v.s[5] = "-" /\ v.s[8] = "-"
    /\ ValidDate(DigitsToNat(SubSeq(v.s, 1, 4)), TwoVal(v.s, 6), TwoVal(v.s, 9))

\* The four literal inputs that stand for 10 May 2023, one per format.
May2023Inputs ==
    { Str(<<"2", "0", "2", "3", "-", "0", "5", "-", "1", "0", "T", "0", "0", ":", "0", "0", ":", "0", "0", "Z">>),
      Str(<<"/", "D", "a", "t", "e", "(", "1", "6", "8", "3", "6", "7", "6", "8", "0", "0", "0", "0", "0", ")", "/">>),
      Str(<<"1", "6", "8", "3", "6", "7", "6", "8", "0", "0">>),
      Str(<<"1", "0", "/", "0", "5", "/", "2", "0", "2", "3">>) }

\* What each format of the cascade reads in the text x, in the order of the
\* cascade: ISO-8601, /Date(ms)/, bare integer, day/month/year.
ParsesOf(x) ==
    << FromIsoFormat(ReplaceZ(x)),
       IF DateWrapperDigits(x) # <<>> THEN DateOfSeconds(MillisToSeconds(DateWrapperDigits(x))) ELSE None,
       IF AllDigits(x) THEN DateOfSeconds(IF Over10e10(x) THEN MillisToSeconds(StripZeros(x)) ELSE x) ELSE None,
       StrpDMY(x) >>

\* C21: the cascade gives, for every input, null or a calendar date, the
\* one of the first format in the order ISO-8601, /Date(ms)/, bare integer,
\* day/month/year that parses; an input no format parses gives null; the
\* four literals for 10 May 2023 give "2023-05-10", "not-a-date" gives null.
C21_DateCascade ==
    Len(fn_out) = 1 =>
        /\ fn_out[1] = None \/ IsIsoDateText(fn_out[1])
        /\ fn_in \in May2023Inputs => fn_out[1] = Str(<<"2", "0", "2", "3", "-", "0", "5", "-", "1", "0">>)
        /\ fn_in = Str(<<"n", "o", "t", "-", "a", "-", "d", "a", "t", "e">>) => fn_out[1] = None
        /\ (IsStr(fn_in) /\ fn_in.s # <<>>) =>
               LET ps == ParsesOf(Strip(fn_in.s))
               IN  IF \E i \in 1..4 : ps[i] # None
                   THEN fn_out[1] = ps[CHOOSE i \in 1..4 : ps[i] # None /\ \A j \in 1..(i - 1) : ps[j] = None]
                   ELSE fn_out[1] = None

\* C21 witness: the /Date(ms)/ literal, which the ISO step rejects, gave
\* the date through the wrapper step.
C21_Witness ==
    /\ fn_in = Str(<<"/", "D", "a", "t", "e", "(", "1", "6", "8", "3", "6", "7", "6", "8", "0", "0", "0", "0", "0", ")", "/">>)
    /\ fn_out = <<Str(<<"2", "0", "2", "3", "-", "0", "5", "-", "1", "0">>)>>

(***************************************************************************)
(* Harness of the envelope unwrapping: unwrap_rues_registro applied to     *)
(* every document made of one choice for "registros", one for "registro"   *)
(* and one for a field of its own, and to bodies that are no mapping.      *)
(***************************************************************************)
Absent == [t |-> "absent"]

RegA == Dict(<< <<"razonSocial", sA>> >>)
RegB == Dict(<< <<"razonSocial", sB>> >>)
RegC == Dict(<< <<"razonSocial", sC>> >>)

RegistrosChoices ==
    { Absent, None, List(<<>>), List(<<Dict(<<>>)>>), List(<<RegA>>), List(<<RegA, RegB>>),
      List(<<sA, RegA>>), Dict(<<>>), RegB, sB }

RegistroChoices == { Absent, Dict(<<>>), RegC, List(<<RegC>>), sC }

OwnChoices == { Absent, sSA }

\* The JSON object with the chosen members (a member that is Absent is left out).
EnvelopeOf(rs, r, o) ==
    Dict((IF rs = Absent THEN <<>> ELSE << <<"registros", rs>> >>)
         \o (IF r = Absent THEN <<>> ELSE << <<"registro", r>> >>)
         \o (IF o = Absent THEN <<>> ELSE << <<"sigla", o>> >>))

InitUnwrap ==
    /\ fn_in \in {EnvelopeOf(rs, r, o) : rs \in RegistrosChoices, r \in RegistroChoices, o \in OwnChoices}
                 \cup {List(<<RegA>>), sA}
    /\ fn_out = <<>>
    /\ endpoint = "webhook"
    /\ payload = [nit |-> None, vat |-> None, id |-> 0]
    /\ partner = [name |-> <<>>, x_sigla |-> <<>>]
    /\ Locals0
    /\ reqs = <<>>
    /\ wlog = <<>>

ApplyUnwrap ==
    /\ fn_out = <<>>
    /\ fn_out' = <<unwrap_rues_registro(fn_in)>>
    /\ UNCHANGED <<fn_in, orch_vars, reqs, wlog>>

NextUnwrap == ApplyUnwrap

SpecUnwrap == InitUnwrap /\ [][NextUnwrap]_vars

\* The value under the key k of the document, Absent when it has no such key.
Member(k) == IF HasKey(fn_in, k) THEN Get(fn_in, k) ELSE Absent

\* "registros" holds a list whose first element is a mapping.
RegistrosListHit == IsList(Member("registros")) /\ Member("registros").items # <<>> /\ IsDict(Member("registros").items[1])

\* C22 (as stated): a registros list whose first element is a mapping gives
\* that element, a registros mapping gives that mapping; otherwise a
\* registro mapping gives that mapping; otherwise the document is returned
\* as it is.
C22_UnwrapFirstMatch ==
    (Len(fn_out) = 1 /\ IsDict(fn_in)) =>
        fn_out[1] =
            IF RegistrosListHit THEN Member("registros").items[1]
            ELSE IF IsDict(Member("registros")) THEN Member("registros")
            ELSE IF IsDict(Member("registro")) THEN Member("registro")
            ELSE fn_in

\* C22 (amended): as stated, but a registros mapping is used only when it is
\* not empty; an empty one is passed over like a missing one.  A body that
\* is no mapping gives the empty mapping.
C22_UnwrapNonEmptyMapping ==
    Len(fn_out) = 1 =>
        LET rs == Member("registros")
            r == Member("registro")
        IN  /\ ~IsDict(fn_in) => fn_out[1] = Dict(<<>>)
            /\ (IsDict(fn_in) /\ RegistrosListHit) => fn_out[1] = rs.items[1]
            /\ (IsDict(fn_in) /\ ~RegistrosListHit /\ IsDict(rs) /\ rs.items # <<>>) => fn_out[1] = rs
            /\ (IsDict(fn_in) /\ ~RegistrosListHit /\ ~(IsDict(rs) /\ rs.items # <<>>) /\ IsDict(r)) => fn_out[1] = r
            /\ (IsDict(fn_in) /\ ~RegistrosListHit /\ ~(IsDict(rs) /\ rs.items # <<>>) /\ ~IsDict(r)) => fn_out[1] = fn_in

\* C22 witness: an empty registros mapping next to a registro mapping; the
\* registro mapping was returned.
C22_Witness ==
    /\ Len(fn_out) = 1
    /\ IsDict(fn_in)
    /\ Member("registros") = Dict(<<>>)
    /\ Member("registro") = RegC
    /\ fn_out[1] = RegC

(***************************************************************************)
(* Harness of the composite record id: build_id_rm applied to every pair   *)
(* of a chamber code and a registration sequence, as integers and as the   *)
(* texts the open-data rows carry.                                         *)
(***************************************************************************)
ChamberValues ==
    { PyInt(7),
      PyInt(100),
      PyBool(TRUE),
      None,
      Str(<<"7">>),
      Str(<<"0", "7">>),
      Str(<<" ", "7", " ">>),
      Str(<<"5", "5">>),
      Str(<<"0">>),
      Str(<<"1", "0", "0">>),
      Str(<<"-", "1">>),
      Str(<<"x">>),
      Str(<<>>) }

SequenceValues ==
    { PyInt(123),
      None,
      Str(<<"1", "2", "3">>),
      Str(<<" ", "1", "2", "3", " ">>),
      Str(<<"0">>),
      Str(<<"+", "5">>),
      Str(<<"-", "3">>),
      Str(<<"2", "0", "0", "0", "0", "0", "0", "0", "0", "0">>),
      Str(<<"N", "/", "A">>) }

InitIdRm ==
    /\ fn_in \in ChamberValues \X SequenceValues
    /\ fn_out = <<>>
    /\ endpoint = "webhook"
    /\ payload = [nit |-> None, vat |-> None, id |-> 0]
    /\ partner = [name |-> <<>>, x_sigla |-> <<>>]
    /\ Locals0
    /\ reqs = <<>>
    /\ wlog = <<>>

ApplyIdRm ==
    /\ fn_out = <<>>
    /\ fn_out' = <<build_id_rm(fn_in[1], fn_in[2])>>
    /\ UNCHANGED <<fn_in, orch_vars, reqs, wlog>>

NextIdRm == ApplyIdRm

SpecIdRm == InitIdRm /\ [][NextIdRm]_vars

\* Both values of the pair can be read as integers.
BothCoercible == PyIntOf(fn_in[1]).ok /\ PyIntOf(fn_in[2]).ok

\* C23: build(7, 123) is "070000000123"; for every pair that can be read as
\* integers the id is a text of exactly 12 digits; a pair with a value that
\* cannot be read as an integer gives no id.
C23_TwelveDigitId ==
    Len(fn_out) = 1 =>
        /\ fn_in = <<PyInt(7), PyInt(123)>> => fn_out[1] = Str(<<"0", "7", "0", "0", "0", "0", "0", "0", "0", "1", "2", "3">>)
        /\ BothCoercible => (IsStr(fn_out[1]) /\ Len(fn_out[1].s) = 12 /\ AllDigits(fn_out[1].s))
        /\ ~BothCoercible => fn_out[1] = None

(***************************************************************************)
(* Two concurrent requests to /webhook/odoo for the same record id, from   *)
(* read_fields on.  What the sources gave each request (its merged         *)
(* razon_social and sigla) is drawn in the initial state; the requests     *)
(* share nothing but the CRM record.                                       *)
(***************************************************************************)
Requests == {1, 2}

\* The merged fields a request may arrive with at the write stage.
MergedOf(i) ==
    IF i = 1 THEN [razon_social : {None, sA}, sigla : {None, sSA}]
    ELSE [razon_social : {None, sB}, sigla : {None, sSB}]

InitWrite ==
    /\ endpoint = "webhook_odoo"
    /\ payload = [nit |-> Str(<<"9", "0", "0", "1", "2", "3", "4", "5", "6", "-", "7">>), vat |-> None, id |-> 42]
    /\ partner \in { [name |-> sC, x_sigla |-> sSC], [name |-> sC, x_sigla |-> PyBool(FALSE)] }
    /\ Locals0
    /\ fn_in = <<>>
    /\ fn_out = <<>>
    /\ \E m1 \in MergedOf(1), m2 \in MergedOf(2) :
         reqs = [i \in Requests |->
                    [pc |-> "read_fields", current |-> None,
                     razon_social |-> (IF i = 1 THEN m1 ELSE m2).razon_social,
                     sigla |-> (IF i = 1 THEN m1 ELSE m2).sigla,
                     vals |-> <<>>, writes |-> <<>>, response |-> NoResponse]]
    /\ wlog = <<>>

\* What the steps of one of the concurrent requests leave alone.
others == <<endpoint, payload, pc, nit_digits, current, row, id_rm, tpl, detalle, fields, html,
            search_title, vals, writes, calls, response, fn_in, fn_out>>

\* exists, current = read_fields(...) of request i
ReadFieldsOf(i) ==
    /\ reqs[i].pc = "read_fields"
    /\ \E a \in ReadAnswers :
         reqs' = [reqs EXCEPT ![i].current = IF a = "ok" THEN ReadEnvelope ELSE Dict(<<>>),
                              ![i].pc = "final"]
    /\ UNCHANGED <<others, partner, wlog>>

\* The 404 and vals of request i
FinishOf(i) ==
    /\ reqs[i].pc = "final"
    /\ LET r == reqs[i]
           v == ValsFor(r.current, r.razon_social, r.sigla)
       IN  IF ~(Truthy(r.razon_social) \/ Truthy(r.sigla))
           THEN reqs' = [reqs EXCEPT ![i].response = [status |-> 404, detail |-> "no_data"],
                                     ![i].pc = "done"]
           ELSE IF v = <<>>
           THEN reqs' = [reqs EXCEPT ![i].response = [status |-> 200, ok |-> TRUE, updated |-> FALSE,
                                                       vals |-> <<>>, writes |-> <<>>],
                                     ![i].pc = "done"]
           ELSE reqs' = [reqs EXCEPT ![i].vals = v, ![i].pc = "write"]
    /\ UNCHANGED <<others, partner, wlog>>

\* One post_write of request i: the CRM applies it to the record when it answers ok.
PostWriteOf(i) ==
    /\ reqs[i].pc = "write"
    /\ \E a \in WriteAnswers :
         LET r == reqs[i]
             j == Len(r.writes) + 1
             ok == a = "ok"
             done == (j = 1 /\ ~ok) \/ j = Len(r.vals)
             ws == Append(r.writes, [field |-> r.vals[j][1], value |-> r.vals[j][2], ok |-> ok, resp |-> a])
         IN  /\ partner' = IF ok THEN [partner EXCEPT ![r.vals[j][1]] = r.vals[j][2]] ELSE partner
             /\ wlog' = IF ok THEN Append(wlog, [req |-> i, field |-> r.vals[j][1]]) ELSE wlog
             /\ reqs' = [reqs EXCEPT
                            ![i].writes = ws,
                            ![i].pc = IF done THEN "done" ELSE "write",
                            ![i].response =
                                IF done
                                THEN [status |-> 200, ok |-> \A k \in 1..Len(ws) : ws[k].ok,
                                      updated |-> TRUE, vals |-> r.vals, writes |-> ws]
                                ELSE r.response]
    /\ UNCHANGED others

NextWrite ==
    \/ \E i \in Requests : ReadFieldsOf(i)
    \/ \E i \in Requests : FinishOf(i)
    \/ \E i \in Requests : PostWriteOf(i)

SpecWrite == InitWrite /\ [][NextWrite]_vars

\* Both requests have ended, each after writing name and sigla with ok = True.
BothWroteBoth ==
    \A i \in Requests :
        /\ reqs[i].pc = "done"
        /\ Len(reqs[i].writes) = 2
        /\ \A j \in 1..2 : reqs[i].writes[j].ok

\* The request whose write the CRM applied last.
LastWriter == wlog[Len(wlog)].req

\* C14: after two concurrent requests have both written name and sigla of
\* the same record, under any interleaving, both fields of the record hold
\* the values of one request, the one whose write came last.
C14_LastWriterWins ==
    BothWroteBoth =>
        /\ partner.name = reqs[LastWriter].razon_social
        /\ partner.x_sigla = reqs[LastWriter].sigla

====
